---------------------------- MODULE Spec2Model ----------------------------
(***************************************************************************)
(* Model of the speaker metadata cache of the Coqui service                *)
(* (src/coqui_service/utils/speaker_cache.py, class SpeakerCache).         *)
(*                                                                         *)
(* One cache instance, one cache file, one loaded TTS model.  Every call   *)
(* of get_speakers and every background task _async_refresh is a process   *)
(* with its own position (pc).  The body of _refresh_cache is cut into its *)
(* calls (acquire the lock, _discover_speakers, the file write of          *)
(* write_cache, volume.commit), so that the refresh lock, and nothing      *)
(* else, is what keeps two refreshes apart.  On the asyncio event loop no  *)
(* coroutine is switched between these calls; the behaviours of the model  *)
(* include those of the event loop.                                        *)
(*                                                                         *)
(* Speaker names are numbers whose order is the order sorted() uses.       *)
(* Times are whole days.                                                   *)
(***************************************************************************)
EXTENDS Integers, Sequences, FiniteSets, TLC

\* ------------------------------------------------------------------ bounds
\* Number of get_speakers calls in a run.
MaxCalls == 2
\* Number of background tasks that can be created in a run.
MaxBg == 2
\* The clock advances in steps of TickDays days, up to MaxNow.
TickDays == 11
MaxNow == 11

\* self.ttl_days
ttl_days == 10

CallIds == 1..MaxCalls
BgIds == (MaxCalls + 1)..(MaxCalls + MaxBg)
Procs == CallIds \cup BgIds

VARIABLES
    file,        \* content of self.cache_file on the volume
    now,         \* datetime.utcnow(), in days
    tts_model,   \* the speakers attribute of the loaded model
    locked,      \* self._refresh_lock is held
    waiters,     \* coroutines waiting for self._refresh_lock, first come first
    pc,          \* position of every call and background task
    req,         \* per call: force_refresh, whether the file was read, the path taken
    result,      \* what the call returned or raised
    speakers,    \* the local variable speakers of _refresh_cache
    ops,         \* per process: discovery calls, file writes and commits it made
    pre,         \* the cache file as it was when the process entered the lock
    overlap,     \* the refresh was requested while another one was pending
    chunking,    \* one call of chunk_text: its arguments and its return value
    stitching,   \* one call of stitch_audio_chunks: arguments and return value
    validation,  \* one call of validate_reference_audio: the clip and the result
    synthesis,   \* one synthesis request of routes.py and its calls
    transcription \* one transcription request of the whisper service

\* The variables of the text and audio pipeline; the cache never touches them.
pipeline_vars == <<chunking, stitching, validation, synthesis, transcription>>

vars == <<file, now, tts_model, locked, waiters, pc, req, result, speakers, ops,
          pre, overlap, chunking, stitching, validation, synthesis,
          transcription>>

\* A function of the pipeline that is not called in the run.
Off == [phase |-> "off"]

\* ------------------------------------------------------- the persisted file
\* A JSON field that may be missing from the object.
Field(v) == [has |-> TRUE, v |-> v]
NoField(v) == [has |-> FALSE, v |-> v]

\* The value under "last_updated": an ISO string written by isoformat() for
\* day t, a string that is no ISO timestamp, JSON null, a JSON number, or no key.
IsoString(t) == [tag |-> "iso", t |-> t]
BadString == [tag |-> "bad", t |-> 0]
JsonNull == [tag |-> "null", t |-> 0]
JsonNumber == [tag |-> "number", t |-> 0]
NoKey == [tag |-> "missing", t |-> 0]

FileOf(kind, sp, c, lu) ==
    [kind |-> kind, speakers |-> sp, count |-> c, last_updated |-> lu]

\* No file; a file open() cannot read; a file that is not JSON (also a file
\* cut short by a failed write); JSON that is not an object.
AbsentFile == FileOf("absent", NoField(<<>>), NoField(0), NoKey)
UnreadableFile == FileOf("unreadable", NoField(<<>>), NoField(0), NoKey)
GarbageFile == FileOf("garbage", NoField(<<>>), NoField(0), NoKey)
NonDictFile == FileOf("nondict", NoField(<<>>), NoField(0), NoKey)
\* A file on which json.load raises an exception that get_cache_metadata does
\* not catch: bytes that are not UTF-8 (UnicodeDecodeError), nesting beyond
\* the recursion limit (RecursionError), an integer of more digits than int()
\* converts (ValueError).  kind is the class of the exception.
LoadErrors == {"UnicodeDecodeError", "RecursionError", "ValueError"}
UndecodableFile(e) == FileOf(e, NoField(<<>>), NoField(0), NoKey)
\* The value None of get_cache_metadata.
None == FileOf("none", NoField(<<>>), NoField(0), NoKey)

\* A JSON object with the three keys.
RecordFile(names, c, t) == FileOf("dict", Field(names), Field(c), IsoString(t))

\* The files a run can start with.
InitFiles ==
    { AbsentFile, UnreadableFile, GarbageFile, NonDictFile,
      UndecodableFile("UnicodeDecodeError"), UndecodableFile("RecursionError"),
      UndecodableFile("ValueError"),
      FileOf("dict", NoField(<<>>), Field(1), IsoString(0)),
      FileOf("dict", Field(<<1>>), NoField(0), IsoString(0)),
      FileOf("dict", Field(<<1>>), Field(1), NoKey),
      FileOf("dict", Field(<<1>>), Field(1), BadString),
      FileOf("dict", Field(<<1>>), Field(1), JsonNull),
      FileOf("dict", Field(<<1>>), Field(1), JsonNumber),
      RecordFile(<<1>>, 1, 0),
      RecordFile(<<1>>, 1, 0 - ttl_days),
      RecordFile(<<1>>, 1, 0 - ttl_days - 1) }

\* ------------------------------------------------------------ the TTS model
\* What tts_model.speakers is: no attribute (or None), a list, a dict (v are
\* its keys in order), an object of another type, or a property that raises.
ModelOf(kind, v) == [kind |-> kind, v |-> v]
ModelSpeakerInputs ==
    { ModelOf("noattr", <<>>), ModelOf("list", <<2, 1>>),
      ModelOf("list", <<1, 1>>), ModelOf("dict", <<2, 1>>),
      ModelOf("other", <<1>>), ModelOf("raises", <<>>) }

\* ----------------------------------------------------------------- results
OkResult(names, c, t, age) ==
    [status |-> "ok", err |-> "", speakers |-> names, count |-> c,
     last_updated |-> t, cache_age_days |-> age]
Raised(e) ==
    [status |-> "error", err |-> e, speakers |-> <<>>, count |-> 0,
     last_updated |-> 0, cache_age_days |-> 0]
NoResult ==
    [status |-> "none", err |-> "", speakers |-> <<>>, count |-> 0,
     last_updated |-> 0, cache_age_days |-> 0]

NoReq == [force |-> FALSE, read |-> FALSE, path |-> "none"]
NoOps == [disc |-> 0, write |-> 0, commit |-> 0]

Init ==
    /\ file \in InitFiles
    /\ now = 0
    /\ tts_model \in ModelSpeakerInputs
    /\ locked = FALSE
    /\ waiters = <<>>
    /\ pc = [p \in Procs |-> IF p \in CallIds THEN "idle" ELSE "unborn"]
    /\ req = [p \in Procs |-> NoReq]
    /\ result = [p \in Procs |-> NoResult]
    /\ speakers = [p \in Procs |-> <<>>]
    /\ ops = [p \in Procs |-> NoOps]
    /\ pre = [p \in Procs |-> None]
    /\ overlap = [p \in Procs |-> FALSE]
    /\ chunking = Off
    /\ stitching = Off
    /\ validation = Off
    /\ synthesis = Off
    /\ transcription = Off

\* ------------------------------------------------------- pure functions
\* get_cache_metadata: the parsed object, or None when there is no file, it
\* cannot be opened or is not JSON (IOError, JSONDecodeError), or it is no
\* object with a "speakers" key; any other exception of json.load leaves it.
get_cache_metadata(f) ==
    IF f.kind \in LoadErrors THEN Raised(f.kind)
    ELSE IF f.kind = "dict" /\ f.speakers.has THEN f ELSE None

\* is_cache_stale with the TTL test one day late, and with >= for >.
is_cache_stale_late(cache_data, t) ==
    LET lu == cache_data.last_updated IN
    IF lu.tag # "iso" THEN TRUE ELSE t - lu.t > ttl_days + 1
is_cache_stale_ge(cache_data, t) ==
    LET lu == cache_data.last_updated IN
    IF lu.tag # "iso" THEN TRUE ELSE t - lu.t >= ttl_days

\* is_cache_stale: no (or a falsy) last_updated is stale, an unparsable one is
\* stale, otherwise stale when the age is above the TTL.
is_cache_stale(cache_data, t) ==
    LET lu == cache_data.last_updated IN
    CASE lu.tag \in {"missing", "null"} -> TRUE
      [] lu.tag \in {"bad", "number"} -> TRUE
      [] OTHER -> t - lu.t > ttl_days

\* The return statement of get_speakers for a cache hit: fromisoformat of
\* cache_data["last_updated"], then the dict with cache_data["count"].
HitResult(cache_data, t) ==
    LET lu == cache_data.last_updated IN
    CASE lu.tag = "missing" -> Raised("KeyError")
      [] lu.tag = "bad" -> Raised("ValueError")
      [] lu.tag \in {"null", "number"} -> Raised("TypeError")
      [] OTHER ->
           IF ~cache_data.count.has THEN Raised("KeyError")
           ELSE OkResult(cache_data.speakers.v, cache_data.count.v, lu.t, t - lu.t)

\* sorted(): insertion of x into a sorted sequence, then the sort itself.
RECURSIVE Insert(_, _)
Insert(x, s) ==
    IF s = <<>> THEN <<x>>
    ELSE IF x <= Head(s) THEN <<x>> \o s
    ELSE <<Head(s)>> \o Insert(x, Tail(s))

RECURSIVE Sorted(_)
Sorted(s) == IF s = <<>> THEN <<>> ELSE Insert(Head(s), Sorted(Tail(s)))

\* write_cache counting the distinct names instead of the list.
CacheData_distinct(names, t) ==
    RecordFile(Sorted(names), Cardinality({names[i] : i \in 1..Len(names)}), t)

\* The cache_data dict that write_cache builds and dumps.
CacheData(names, t) == RecordFile(Sorted(names), Len(names), t)

\* What write_cache can meet: success; an IOError before the file is opened
\* for writing (mkdir, open); an error after open(..., "w") emptied the file.
WriteOutcomes == {"ok", "fail_before_open", "fail_after_open"}

\* write_cache that never touches the file.
FileAfterWrite_nowrite(outcome, names, t, old) == old

\* The cache file after the with-block of write_cache.
FileAfterWrite(outcome, names, t, old) ==
    CASE outcome = "ok" -> CacheData(names, t)
      [] outcome = "fail_before_open" -> old
      [] OTHER -> GarbageFile

\* _discover_speakers: the list, the keys of the dict, or [] when the model
\* has no speakers or another type; raises when the attribute raises.
DiscoverFailed(m) == m.kind = "raises"
Discovered(m) == IF m.kind \in {"list", "dict"} THEN m.v ELSE <<>>

\* "if not speakers" of _refresh_cache, and the same test left out.
NoSpeakers_never(names) == FALSE
NoSpeakers(names) == names = <<>>

\* The dict _refresh_cache returns when discovery found nothing, and the one
\* it returns after write_cache.
EmptyRefreshResult(t) == OkResult(<<>>, 0, t, 0)
RefreshResult(names, t) == OkResult(names, Len(names), t, 0)

\* ---------------------------------------------------------------- the lock
\* A lock that lets everybody through.
GateOpen_nolock(p) == TRUE

\* asyncio.Lock.acquire goes through when the lock is free and nobody waits
\* before the caller.
GateOpen(p) == ~locked /\ (waiters = <<>> \/ Head(waiters) = p)

\* A refresh that was requested and has not ended.
Pending(q) == pc[q] \in {"created", "wait", "discover", "write", "commit"}

\* How a call of get_speakers ends, and how the task _async_refresh ends: it
\* catches every Exception of the refresh.
CallEnd(res) == IF res.status = "ok" THEN "returned" ELSE "raised"
\* _async_refresh without its try/except.
AsyncRefreshEnd_nocatch(res) == IF res.status = "ok" THEN "bg_done" ELSE "raised"
AsyncRefreshEnd(res) == "bg_done"
EndOf(p, res) == IF p \in BgIds THEN AsyncRefreshEnd(res) ELSE CallEnd(res)

\* The call of get_speakers that comes next, and the next task to create.
NextCall(p) == p \in CallIds /\ pc[p] = "idle" /\ \A q \in CallIds : q < p => pc[q] # "idle"
NextBg(b) == b \in BgIds /\ pc[b] = "unborn" /\ \A q \in BgIds : q < b => pc[q] # "unborn"

\* A stale hit that creates no task while another refresh is pending.
SchedulesRefresh_once(is_stale) == is_stale /\ ~\E q \in Procs : Pending(q)

\* "if self.is_cache_stale(cache_data)" of get_speakers: every stale hit
\* creates a task, whatever refreshes are pending.
SchedulesRefresh(is_stale) == is_stale

\* Entering _refresh_cache: "async with self._refresh_lock" takes the lock at
\* once when it is free, and queues the caller otherwise.
EnterRefresh(p) ==
    /\ overlap' = [overlap EXCEPT ![p] = \E q \in Procs \ {p} : Pending(q)]
    /\ IF GateOpen(p)
       THEN /\ locked' = TRUE
            /\ waiters' = waiters
            /\ pc' = [pc EXCEPT ![p] = "discover"]
            /\ pre' = [pre EXCEPT ![p] = file]
       ELSE /\ locked' = locked
            /\ waiters' = Append(waiters, p)
            /\ pc' = [pc EXCEPT ![p] = "wait"]
            /\ pre' = pre

\* A lock that stays taken when the block is left by an exception.
LockAfter_kept_on_error(res) == res.status # "ok"

\* The exit of "async with self._refresh_lock": the lock is released whether
\* the block returns or raises.
LockAfter(res) == FALSE

\* Leaving _refresh_cache with res (a return value or an exception): the
\* lock is released and the call, or the background task, ends.
LeaveRefresh(p, res) ==
    /\ locked' = LockAfter(res)
    /\ pc' = [pc EXCEPT ![p] = EndOf(p, res)]
    /\ result' = [result EXCEPT ![p] = res]

\* ----------------------------------------------------------------- actions
\* get_speakers(force_refresh=True): straight into _refresh_cache.
GetForced(p) ==
    /\ NextCall(p)
    /\ req' = [req EXCEPT ![p] = [force |-> TRUE, read |-> FALSE, path |-> "forced"]]
    /\ EnterRefresh(p)
    /\ UNCHANGED pipeline_vars
    /\ UNCHANGED <<file, now, tts_model, result, speakers, ops>>

\* get_speakers(): get_cache_metadata returns None, into _refresh_cache.
GetMiss(p) ==
    /\ NextCall(p)
    /\ file.kind \notin LoadErrors
    /\ get_cache_metadata(file) = None
    /\ req' = [req EXCEPT ![p] = [force |-> FALSE, read |-> TRUE, path |-> "miss"]]
    /\ EnterRefresh(p)
    /\ UNCHANGED pipeline_vars
    /\ UNCHANGED <<file, now, tts_model, result, speakers, ops>>

\* get_speakers(): a cache hit.  A stale hit creates the task _async_refresh
\* (b), then the cached data is returned, or building the result raises.
GetHit(p) ==
    /\ NextCall(p)
    /\ file.kind \notin LoadErrors
    /\ get_cache_metadata(file) # None
    /\ LET cache_data == get_cache_metadata(file)
           is_stale == is_cache_stale(cache_data, now)
           res == HitResult(cache_data, now)
       IN  /\ req' = [req EXCEPT ![p] = [force |-> FALSE, read |-> TRUE,
                         path |-> IF is_stale THEN "stale" ELSE "fresh"]]
           /\ result' = [result EXCEPT ![p] = res]
           /\ IF SchedulesRefresh(is_stale)
              THEN \E b \in BgIds :
                     /\ NextBg(b)
                     /\ pc' = [pc EXCEPT ![p] = CallEnd(res), ![b] = "created"]
              ELSE pc' = [pc EXCEPT ![p] = CallEnd(res)]
    /\ UNCHANGED pipeline_vars
    /\ UNCHANGED <<file, now, tts_model, locked, waiters, speakers, ops, pre, overlap>>

\* get_speakers(): get_cache_metadata raises, and the exception leaves
\* get_speakers: no refresh is entered, no task is created, the file stays.
GetReadError(p) ==
    /\ NextCall(p)
    /\ file.kind \in LoadErrors
    /\ req' = [req EXCEPT ![p] = [force |-> FALSE, read |-> TRUE, path |-> "read_error"]]
    /\ result' = [result EXCEPT ![p] = get_cache_metadata(file)]
    /\ pc' = [pc EXCEPT ![p] = CallEnd(get_cache_metadata(file))]
    /\ UNCHANGED pipeline_vars
    /\ UNCHANGED <<file, now, tts_model, locked, waiters, speakers, ops, pre, overlap>>

\* The event loop starts the task: _async_refresh calls _refresh_cache.
BgStart(b) ==
    /\ b \in BgIds
    /\ pc[b] = "created"
    /\ req' = [req EXCEPT ![b] = [force |-> FALSE, read |-> FALSE, path |-> "background"]]
    /\ EnterRefresh(b)
    /\ UNCHANGED pipeline_vars
    /\ UNCHANGED <<file, now, tts_model, result, speakers, ops>>

\* A waiting coroutine gets the lock.
AcquireGate(p) ==
    /\ pc[p] = "wait"
    /\ GateOpen(p)
    /\ locked' = TRUE
    /\ waiters' = SelectSeq(waiters, LAMBDA q : q # p)
    /\ pc' = [pc EXCEPT ![p] = "discover"]
    /\ pre' = [pre EXCEPT ![p] = file]
    /\ UNCHANGED pipeline_vars
    /\ UNCHANGED <<file, now, tts_model, req, result, speakers, ops, overlap>>

\* _discover_speakers returns (or raises): no speakers ends the refresh with
\* the empty result, otherwise write_cache is next.
Discover(p) ==
    /\ pc[p] = "discover"
    /\ ops' = [ops EXCEPT ![p].disc = @ + 1]
    /\ IF DiscoverFailed(tts_model)
       THEN /\ LeaveRefresh(p, Raised("DiscoveryError"))
            /\ UNCHANGED speakers
       ELSE IF NoSpeakers(Discovered(tts_model))
       THEN /\ LeaveRefresh(p, EmptyRefreshResult(now))
            /\ UNCHANGED speakers
       ELSE /\ speakers' = [speakers EXCEPT ![p] = Discovered(tts_model)]
            /\ UNCHANGED <<locked, result>>
            /\ pc' = [pc EXCEPT ![p] = "write"]
    /\ UNCHANGED pipeline_vars
    /\ UNCHANGED <<file, now, tts_model, waiters, req, pre, overlap>>

\* write_cache up to the end of its with-block: the file is written, or the
\* write fails and the exception leaves _refresh_cache.
WriteCache(p) ==
    /\ pc[p] = "write"
    /\ ops' = [ops EXCEPT ![p].write = @ + 1]
    /\ \E outcome \in WriteOutcomes :
         /\ file' = FileAfterWrite(outcome, speakers[p], now, file)
         /\ IF outcome = "ok"
            THEN /\ pc' = [pc EXCEPT ![p] = "commit"]
                 /\ UNCHANGED <<locked, result>>
            ELSE LeaveRefresh(p, Raised("IOError"))
    /\ UNCHANGED pipeline_vars
    /\ UNCHANGED <<now, tts_model, waiters, req, speakers, pre, overlap>>

\* volume.commit() and the return of _refresh_cache, or the exception of
\* commit leaving it.
Commit(p) ==
    /\ pc[p] = "commit"
    /\ ops' = [ops EXCEPT ![p].commit = @ + 1]
    /\ \E committed \in BOOLEAN :
         IF committed
         THEN LeaveRefresh(p, RefreshResult(speakers[p], now))
         ELSE LeaveRefresh(p, Raised("CommitError"))
    /\ UNCHANGED pipeline_vars
    /\ UNCHANGED <<file, now, tts_model, waiters, req, speakers, pre, overlap>>

\* The clock moves on.
Tick ==
    /\ now < MaxNow
    /\ now' = now + TickDays
    /\ UNCHANGED pipeline_vars
    /\ UNCHANGED <<file, tts_model, locked, waiters, pc, req, result, speakers,
                   ops, pre, overlap>>

Next ==
    \/ \E p \in CallIds : GetForced(p)
    \/ \E p \in CallIds : GetMiss(p)
    \/ \E p \in CallIds : GetHit(p)
    \/ \E p \in CallIds : GetReadError(p)
    \/ \E b \in BgIds : BgStart(b)
    \/ \E p \in Procs : AcquireGate(p)
    \/ \E p \in Procs : Discover(p)
    \/ \E p \in Procs : WriteCache(p)
    \/ \E p \in Procs : Commit(p)
    \/ Tick

Spec == Init /\ [][Next]_vars

\* The event loop runs every task that is ready: a created task is started,
\* the coroutine at the head of the lock's queue is woken when the lock is
\* free, and the body of _refresh_cache, which awaits nothing, runs to its
\* end.  Clients are not obliged to call, and the clock need not move.
RefreshBody == \E p \in Procs : Discover(p) \/ WriteCache(p) \/ Commit(p)
SpecFair ==
    /\ Init /\ [][Next]_vars
    /\ WF_vars(\E b \in BgIds : BgStart(b))
    /\ WF_vars(\E p \in Procs : AcquireGate(p))
    /\ WF_vars(RefreshBody)

\* ------------------------------------------------------------------ claims
\* A persisted record with the three fields and a timestamp that parses.
ValidRecord(f) ==
    f.kind = "dict" /\ f.speakers.has /\ f.count.has /\ f.last_updated.tag = "iso"
AgeOf(f) == now - f.last_updated.t

\* The step in which call p of get_speakers(force_refresh=False) is made.
PlainCallStep(p) == pc[p] = "idle" /\ pc'[p] # "idle" /\ ~req'[p].force

\* The background tasks created in a step.
CreatedInStep == {b \in BgIds : pc[b] = "unborn" /\ pc'[b] = "created"}

\* The call returned the names, count and last_updated of record f.
ReturnedRecord(p, f) ==
    /\ pc'[p] = "returned"
    /\ result'[p].speakers = f.speakers.v
    /\ result'[p].count = f.count.v
    /\ result'[p].last_updated = f.last_updated.t

\* C1: a get without force_refresh on a valid record older than the TTL
\* returns the names, count and last_updated of the record persisted at the
\* call, in the step of the call itself (no discovery, no write, no waiting),
\* and creates exactly one background task; a background task makes at most
\* one discovery call, and exactly one once it has ended.
C1_StaleGetReturnsOldAndSchedulesOne ==
    [][ /\ \A p \in CallIds :
             (PlainCallStep(p) /\ ValidRecord(file) /\ AgeOf(file) > ttl_days)
             => /\ ReturnedRecord(p, file)
                /\ file' = file
                /\ ops' = ops
                /\ Cardinality(CreatedInStep) = 1
                /\ \A q \in Procs \ ({p} \cup CreatedInStep) : pc'[q] = pc[q]
        /\ \A b \in BgIds :
             /\ ops'[b].disc <= 1
             /\ pc'[b] = "bg_done" => ops'[b].disc = 1 ]_vars

\* C1 witness: a stale get has returned the old names, its background task
\* has ended after one discovery call, and the file now holds other names.
C1_Witness ==
    \E p \in CallIds, b \in BgIds :
        /\ req[p].path = "stale" /\ pc[p] = "returned"
        /\ pc[b] = "bg_done" /\ ops[b].disc = 1
        /\ ValidRecord(file) /\ file.speakers.v # result[p].speakers

\* C2: a get without force_refresh on a valid record whose age is at most
\* the TTL returns exactly the persisted names, count and last_updated, makes
\* no discovery call, creates no background task, takes no lock and leaves
\* the file as it is.
C2_FreshGetReturnsRecordUntouched ==
    [][ \A p \in CallIds :
          (PlainCallStep(p) /\ ValidRecord(file) /\ AgeOf(file) <= ttl_days)
          => /\ ReturnedRecord(p, file)
             /\ file' = file
             /\ ops' = ops
             /\ CreatedInStep = {}
             /\ locked' = locked /\ waiters' = waiters
             /\ \A q \in Procs \ {p} : pc'[q] = pc[q] ]_vars

\* C2 witness: a get has returned a record whose age is exactly the TTL.
C2_Witness ==
    \E p \in CallIds :
        /\ req[p].path = "fresh" /\ pc[p] = "returned"
        /\ result[p].cache_age_days = ttl_days
        /\ \A b \in BgIds : pc[b] = "unborn"

\* C3: no error of reading or interpreting the persisted record reaches the
\* caller of get, and a call answered from the record (not by a refresh) has
\* found a record with all three fields.
ReadErrors == {"KeyError", "ValueError", "TypeError"} \cup LoadErrors
C3_InvalidRecordIsTreatedAsEmpty ==
    \A p \in CallIds :
        /\ pc[p] = "raised" => result[p].err \notin ReadErrors
        /\ req[p].path \in {"fresh", "stale"} => pc[p] = "returned"

\* C4: at most one process is between acquiring the refresh lock and leaving
\* it: never two discovery calls in flight, never two writes in progress.
InDiscovery == {p \in Procs : pc[p] = "discover"}
InWrite == {p \in Procs : pc[p] \in {"write", "commit"}}
C4_OneRefreshAtATime ==
    /\ Cardinality(InDiscovery) <= 1
    /\ Cardinality(InWrite) <= 1
    /\ Cardinality(InDiscovery \cup InWrite) <= 1
    /\ (InDiscovery \cup InWrite # {}) => locked

\* C4 witness: a forced refresh is writing inside the lock while a
\* background refresh waits for the lock.
C4_Witness ==
    \E p \in CallIds, b \in BgIds :
        /\ req[p].force /\ pc[p] \in {"write", "commit"}
        /\ pc[b] = "wait" /\ waiters = <<b>>

\* C5: a refresh requested while another refresh is pending waits for it
\* and makes no discovery call of its own.
C5_OverlappingRequestsShareOneDiscovery ==
    \A p \in Procs : overlap[p] => ops[p].disc = 0

\* The step in which the refresh run by p leaves _refresh_cache by a return.
RefreshReturnStep(p) ==
    /\ pc[p] \in {"discover", "write", "commit"}
    /\ pc'[p] \in {"returned", "bg_done"}
    /\ result'[p].status = "ok"

\* The file holds the record made of the names discovery gives.
HoldsDiscovered(f) ==
    /\ ValidRecord(f)
    /\ f.speakers.v = Sorted(Discovered(tts_model))
    /\ f.count.v = Len(Discovered(tts_model))

\* C6: get(force_refresh=True) goes into the refresh in every cache state
\* without reading the file; when it returns it has made exactly one
\* discovery call and returns the discovered names, and when these are not
\* empty it has written and committed the record once and the file holds it.
C6_ForcedGetRefreshesSynchronously ==
    [][ \A p \in CallIds :
          /\ (pc[p] = "idle" /\ pc'[p] # "idle" /\ req'[p].force)
             => /\ pc'[p] \in {"wait", "discover"}
                /\ ~req'[p].read
                /\ CreatedInStep = {}
          /\ (req[p].force /\ RefreshReturnStep(p))
             => /\ ops'[p].disc = 1
                /\ result'[p].speakers = Discovered(tts_model)
                /\ result'[p].count = Len(Discovered(tts_model))
                /\ Discovered(tts_model) # <<>>
                   => /\ ops'[p].write = 1 /\ ops'[p].commit = 1
                      /\ HoldsDiscovered(file')
                      /\ file'.last_updated.t <= now' ]_vars

\* C6 witness: a forced get has returned the discovered names <<2, 1>> over
\* a record that was fresh and valid, and the file holds them sorted.
C6_Witness ==
    \E p \in CallIds :
        /\ req[p].force /\ pc[p] = "returned"
        /\ result[p].speakers = <<2, 1>>
        /\ ValidRecord(pre[p]) /\ pre[p].speakers.v = <<1>>
        /\ file.speakers.v = <<1, 2>> /\ file.count.v = 2

\* C7: a refresh (of a call or of a background task) whose discovery gives
\* no name ends with a result of zero names and count 0; it writes nothing
\* and commits nothing: the file is as it was when the refresh got the lock.
C7_EmptyDiscoveryWritesNothing ==
    [][ \A p \in Procs :
          (/\ pc[p] = "discover" /\ pc'[p] # "discover"
           /\ ~DiscoverFailed(tts_model) /\ Discovered(tts_model) = <<>>)
          => /\ pc'[p] \in {"returned", "bg_done"}
             /\ result'[p].status = "ok"
             /\ result'[p].speakers = <<>> /\ result'[p].count = 0
             /\ file' = file /\ file' = pre[p]
             /\ ops'[p].write = 0 /\ ops'[p].commit = 0
             /\ ~locked' ]_vars

\* C7 witness: a background refresh and the refresh of a call both ended
\* with no names, and the good record is still in the file.
C7_Witness ==
    \E p \in CallIds, b \in BgIds :
        /\ pc[p] = "returned" /\ ops[p].disc = 1 /\ result[p].count = 0
        /\ pc[b] = "bg_done" /\ ops[b].disc = 1 /\ result[b].status = "ok"
        /\ result[b].speakers = <<>>
        /\ ValidRecord(file) /\ file.speakers.v = <<1>>

\* C8: a background task never ends by raising, whatever fails in its
\* refresh; and an error of discovery, write or commit reaches a call of get
\* only from the refresh that call ran itself, never a call answered from
\* the record.
RefreshErrors == {"DiscoveryError", "IOError", "CommitError"}
C8_BackgroundFailureNeverSurfaces ==
    /\ \A b \in BgIds : pc[b] # "raised"
    /\ \A p \in CallIds :
         result[p].err \in RefreshErrors
         => /\ req[p].path \in {"forced", "miss"}
            /\ ops[p].disc = 1
            /\ result[p].err = "DiscoveryError" => ops[p].write = 0
            /\ result[p].err = "IOError" => ops[p].write = 1 /\ ops[p].commit = 0
            /\ result[p].err = "CommitError" => ops[p].commit = 1

\* C8 witness: a background refresh failed in its write, the stale get that
\* created it returned the record, and a later get returned too.
C8_Witness ==
    \E p \in CallIds, q \in CallIds, b \in BgIds :
        /\ p < q
        /\ req[p].path = "stale" /\ pc[p] = "returned"
        /\ pc[b] = "bg_done" /\ result[b].err = "IOError"
        /\ pc[q] = "returned" /\ req[q].path = "miss"

\* C9: a write or commit failure of a synchronous refresh is raised to its
\* caller; a background refresh that fails in write or commit leaves in the
\* file the record that was there when it got the lock.
C9_FailedBackgroundWriteKeepsPreviousRecord ==
    [][ \A p \in Procs :
          (/\ pc[p] \in {"write", "commit"} /\ pc'[p] \notin {"write", "commit"}
           /\ result'[p].status = "error")
          => /\ p \in CallIds => pc'[p] = "raised"
             /\ p \in BgIds => (pc'[p] = "bg_done" /\ file' = pre[p]) ]_vars

\* The first get on an empty store: the call went for a refresh on a miss
\* and there was no file when it got the lock.
FirstGetOnEmptyStore(p) == req[p].path = "miss" /\ pre[p] = AbsentFile

\* C10 as stated: when the first get on an empty store returns, it has made
\* one discovery call and the file holds one record of the discovered names
\* with count their number.
C10_FirstGetAlwaysPersists ==
    [][ \A p \in CallIds :
          (FirstGetOnEmptyStore(p) /\ RefreshReturnStep(p))
          => /\ ops'[p].disc = 1
             /\ HoldsDiscovered(file') ]_vars

\* C10 amended: when the first get on an empty store returns, it has made
\* one discovery call; if discovery gave at least one name, it has written
\* and committed once and the file holds one record of the discovered names
\* with count their number; if discovery gave none, there is still no file.
C10_FirstGetPersistsWhenDiscoveryNonEmpty ==
    [][ \A p \in CallIds :
          (FirstGetOnEmptyStore(p) /\ RefreshReturnStep(p))
          => /\ ops'[p].disc = 1
             /\ Discovered(tts_model) # <<>>
                => /\ HoldsDiscovered(file')
                   /\ ops'[p].write = 1 /\ ops'[p].commit = 1
             /\ Discovered(tts_model) = <<>> => file' = AbsentFile ]_vars

\* C10 witness: the first get on an empty store returned two discovered
\* names (one name twice) and the file holds both with count 2.
C10_Witness ==
    \E p \in CallIds :
        /\ FirstGetOnEmptyStore(p) /\ pc[p] = "returned"
        /\ result[p].speakers = <<1, 1>>
        /\ file.speakers.v = <<1, 1>> /\ file.count.v = 2

\* A sequence in which no element appears twice.
NoDuplicates(s) == \A i, j \in 1..Len(s) : s[i] = s[j] => i = j

\* C11: in every reachable state the persisted record and every result
\* returned by get hold a name list in which no name appears twice and a
\* count equal to the length of that list.
C11_NamesAreASetAndCountIsTheirNumber ==
    /\ (file.kind = "dict" /\ file.speakers.has /\ file.count.has)
       => /\ NoDuplicates(file.speakers.v)
          /\ file.count.v = Len(file.speakers.v)
    /\ \A p \in CallIds :
         pc[p] = "returned"
         => /\ NoDuplicates(result[p].speakers)
            /\ result[p].count = Len(result[p].speakers)


\* =================================================================== chunker
\* src/coqui_service/utils/chunker.py.  A text is a sequence of characters.
\* The letter "a" stands for every character that is neither whitespace nor
\* a sentence end, "." for the sentence ends . ! ? and " " for whitespace.
MaxTextLen == 6
\* max_chars, max_words and min_chars are drawn up to these values.
MaxCharsArg == 3
MaxWordsArg == 2
MaxMinCharsArg == 2

Chars == {"a", ".", " "}
IsSpace(c) == c = " "
IsSentenceEnd(c) == c = "."

\* All texts of at most n characters.
RECURSIVE TextsUpTo(_)
TextsUpTo(n) ==
    IF n = 0 THEN {<<>>}
    ELSE LET shorter == TextsUpTo(n - 1)
         IN  shorter \cup {Append(t, c) : t \in {u \in shorter : Len(u) = n - 1}, c \in Chars}

\* The positions of s that hold no whitespace, and the k-th smallest
\* element of a set of positions.
Inked(s) == {i \in 1..Len(s) : ~IsSpace(s[i])}
Nth(S, k) == CHOOSE x \in S : Cardinality({y \in S : y <= x}) = k

\* str.strip(): s from its first to its last character that is no whitespace.
strip(s) ==
    IF Inked(s) = {} THEN <<>>
    ELSE SubSeq(s, Nth(Inked(s), 1), Nth(Inked(s), Cardinality(Inked(s))))

\* str.split(): the maximal runs of non-whitespace characters, each from a
\* position that begins a run to the next position that ends one.
split(s) ==
    LET starts == {i \in Inked(s) : i = 1 \/ IsSpace(s[i - 1])}
        ends == {i \in Inked(s) : i = Len(s) \/ IsSpace(s[i + 1])}
    IN  [k \in 1..Cardinality(starts) |-> SubSeq(s, Nth(starts, k), Nth(ends, k))]

\* " ".join(parts)
RECURSIVE join(_)
join(parts) ==
    IF parts = <<>> THEN <<>>
    ELSE IF Len(parts) = 1 THEN parts[1]
    ELSE LET half == Len(parts) \div 2
         IN  join(SubSeq(parts, 1, half)) \o <<" ">>
             \o join(SubSeq(parts, half + 1, Len(parts)))

\* re.split(r"(?<=[.!?])\s+", s): s is cut at every run of whitespace that
\* follows a sentence end, and the run is dropped: a part ends before such
\* a run and the next part begins after it.
ReSplit(s) ==
    LET cuts == {i \in 2..Len(s) : IsSpace(s[i]) /\ IsSentenceEnd(s[i - 1])}
        resume == {j \in 1..Len(s) :
                     /\ IsSpace(s[j])
                     /\ j = Len(s) \/ ~IsSpace(s[j + 1])
                     /\ \E i \in cuts : i <= j /\ \A m \in i..j : IsSpace(s[m])}
        starts == {1} \cup {j + 1 : j \in resume}
        ends == {i - 1 : i \in cuts} \cup {Len(s)}
    IN  [k \in 1..Cardinality(starts) |-> SubSeq(s, Nth(starts, k), Nth(ends, k))]

\* [part.strip() for part in parts if part.strip()]
StripAndKeep(parts) ==
    SelectSeq([k \in 1..Len(parts) |-> strip(parts[k])], LAMBDA part : part # <<>>)

split_sentences(text) == StripAndKeep(ReSplit(strip(text)))

\* The locals chunks, current, current_chars, current_words of chunk_text.
Buffer(chunks, current, chars, words) ==
    [chunks |-> chunks, current |-> current, current_chars |-> chars,
     current_words |-> words]

flush_current(b) ==
    LET chunk == strip(join(b.current))
    IN  Buffer(IF b.current # <<>> /\ chunk # <<>> THEN Append(b.chunks, chunk)
               ELSE b.chunks,
               <<>>, 0, 0)

\* The body of "for word in sentence_words".
AddWord(b, word, max_chars, max_words) ==
    LET b1 == IF (b.current_words + 1 > max_words)
                 \/ (b.current_chars + Len(word) + 1 > max_chars)
              THEN flush_current(b) ELSE b
    IN  Buffer(b1.chunks, Append(b1.current, word),
               b1.current_chars + Len(word) + 1, b1.current_words + 1)

RECURSIVE AddWords(_, _, _, _)
AddWords(b, words, max_chars, max_words) ==
    IF words = <<>> THEN b
    ELSE AddWords(AddWord(b, Head(words), max_chars, max_words), Tail(words),
                  max_chars, max_words)

\* The body of "for sentence in sentences".
AddSentence(b, sentence, max_chars, max_words) ==
    LET sentence_words == split(sentence)
        sentence_chars == Len(sentence)
        sentence_word_count == Len(sentence_words)
    IN  IF sentence_word_count > max_words
        THEN AddWords(b, sentence_words, max_chars, max_words)
        ELSE LET b1 == IF (b.current_words + sentence_word_count > max_words)
                          \/ (b.current_chars + sentence_chars + 1 > max_chars)
                       THEN flush_current(b) ELSE b
             IN  Buffer(b1.chunks, Append(b1.current, sentence),
                        b1.current_chars + sentence_chars + 1,
                        b1.current_words + sentence_word_count)

RECURSIVE AddSentences(_, _, _, _)
AddSentences(b, sentences, max_chars, max_words) ==
    IF sentences = <<>> THEN b
    ELSE AddSentences(AddSentence(b, Head(sentences), max_chars, max_words),
                      Tail(sentences), max_chars, max_words)

\* A merge that drops the tiny final chunk instead of appending it.
MergeTinyFinal_drop(chunks, min_chars) ==
    IF Len(chunks) >= 2 /\ Len(chunks[Len(chunks)]) < min_chars
    THEN SubSeq(chunks, 1, Len(chunks) - 1)
    ELSE chunks

\* "Merge tiny final chunk into previous chunk".
MergeTinyFinal(chunks, min_chars) ==
    IF Len(chunks) >= 2 /\ Len(chunks[Len(chunks)]) < min_chars
    THEN LET n == Len(chunks)
         IN  Append(SubSeq(chunks, 1, n - 2),
                    strip(chunks[n - 1] \o <<" ">> \o chunks[n]))
    ELSE chunks

chunk_text(text, max_chars, max_words, min_chars, preserve_sentence_boundaries) ==
    LET cleaned == strip(text)
        sentences == IF preserve_sentence_boundaries THEN split_sentences(cleaned)
                     ELSE <<cleaned>>
        filled == AddSentences(Buffer(<<>>, <<>>, 0, 0), sentences, max_chars,
                               max_words)
    IN  IF cleaned = <<>> THEN <<>>
        ELSE MergeTinyFinal(flush_current(filled).chunks, min_chars)

\* One call of chunk_text.
ChunkCall(text, mc, mw, minc, psb, phase, chunks) ==
    [phase |-> phase, text |-> text, max_chars |-> mc, max_words |-> mw,
     min_chars |-> minc, preserve_sentence_boundaries |-> psb, chunks |-> chunks]

\* The cache at rest, for the runs of the pipeline functions.
CacheAtRest ==
    /\ file = AbsentFile
    /\ now = 0
    /\ tts_model = ModelOf("noattr", <<>>)
    /\ locked = FALSE
    /\ waiters = <<>>
    /\ pc = [p \in Procs |-> IF p \in CallIds THEN "idle" ELSE "unborn"]
    /\ req = [p \in Procs |-> NoReq]
    /\ result = [p \in Procs |-> NoResult]
    /\ speakers = [p \in Procs |-> <<>>]
    /\ ops = [p \in Procs |-> NoOps]
    /\ pre = [p \in Procs |-> None]
    /\ overlap = [p \in Procs |-> FALSE]

cache_vars == <<file, now, tts_model, locked, waiters, pc, req, result, speakers,
                ops, pre, overlap>>

InitChunk ==
    /\ CacheAtRest
    /\ chunking \in { ChunkCall(t, mc, mw, minc, psb, "called", <<>>) :
                        t \in TextsUpTo(MaxTextLen), mc \in 1..MaxCharsArg,
                        mw \in 1..MaxWordsArg, minc \in 0..MaxMinCharsArg,
                        psb \in BOOLEAN }
    /\ stitching = Off
    /\ validation = Off
    /\ synthesis = Off
    /\ transcription = Off

\* chunk_text returns.
ChunkText ==
    /\ chunking.phase = "called"
    /\ chunking' = [chunking EXCEPT
                      !.phase = "returned",
                      !.chunks = chunk_text(chunking.text, chunking.max_chars,
                                            chunking.max_words, chunking.min_chars,
                                            chunking.preserve_sentence_boundaries)]
    /\ UNCHANGED <<stitching, validation, synthesis, transcription>>
    /\ UNCHANGED cache_vars

NextChunk == ChunkText

SpecChunk == InitChunk /\ [][NextChunk]_vars

\* ----------------------------------------------------------- chunker claims
\* The number of whitespace-separated words of a chunk.
WordCount(chunk) == Len(split(chunk))

\* C12: every chunk chunk_text returns has at most max_chars characters or
\* is one single word that is longer than max_chars.
C12_ChunkWithinMaxCharsOrOneLongWord ==
    chunking.phase = "returned"
    => \A i \in 1..Len(chunking.chunks) :
         \/ Len(chunking.chunks[i]) <= chunking.max_chars
         \/ /\ WordCount(chunking.chunks[i]) = 1
            /\ Len(chunking.chunks[i]) > chunking.max_chars

\* C13: every chunk chunk_text returns has at most max_words words, the
\* last chunk after the merge of a tiny final chunk included.
C13_ChunkWithinMaxWords ==
    chunking.phase = "returned"
    => \A i \in 1..Len(chunking.chunks) :
         WordCount(chunking.chunks[i]) <= chunking.max_words

\* C14: the words of the chunks, read in chunk order, are the words of the
\* text in their order; no chunk is empty; a text that is empty or only
\* whitespace gives no chunk.
C14_ChunksAreAPartitionOfTheWords ==
    chunking.phase = "returned"
    => /\ split(join(chunking.chunks)) = split(chunking.text)
       /\ \A i \in 1..Len(chunking.chunks) : chunking.chunks[i] # <<>>
       /\ strip(chunking.text) = <<>> => chunking.chunks = <<>>

\* A call that returned two chunks or more after merging a tiny final chunk.
C14_Witness ==
    /\ chunking.phase = "returned"
    /\ Len(chunking.chunks) >= 2
    /\ Len(chunk_text(chunking.text, chunking.max_chars, chunking.max_words, 0,
                      chunking.preserve_sentence_boundaries))
         = Len(chunking.chunks) + 1

\* ================================================================== stitcher
\* src/coqui_service/utils/audio.py: stitch_audio_chunks, crossfade_pcm16,
\* generate_silence.  A bytes object is a sequence of numbers 0..255.
\* array("h") reads and writes 16-bit samples in the byte order of the
\* machine, taken here as little-endian.

\* Samples per buffer given to crossfade_pcm16, and chunks per stitch call.
MaxSamples == 3
MaxChunks == 3
\* crossfade_ms and silence_ms are drawn up to these values.
MaxCrossfadeMs == 2
MaxSilenceMs == 2

Min(a, b) == IF a <= b THEN a ELSE b
Max(a, b) == IF a >= b THEN a ELSE b

\* ---- Python floats
\* A float is an IEEE 754 binary64 number: a sign, a significand of at most
\* 53 bits and an exponent; every operation gives the exact result rounded to
\* the nearest such number, ties to the even significand.  The significand
\* is a natural number written as its digits in base 32768, lowest first,
\* without leading zeros (<<>> is 0), because it does not fit the integers
\* of the model checker.
RECURSIVE BigTrim(_)
BigTrim(a) ==
    IF a # <<>> /\ a[Len(a)] = 0 THEN BigTrim(SubSeq(a, 1, Len(a) - 1)) ELSE a

RECURSIVE BigOfInt(_)
BigOfInt(n) == IF n = 0 THEN <<>> ELSE <<n % 32768>> \o BigOfInt(n \div 32768)

RECURSIVE BigToInt(_)
BigToInt(a) == IF a = <<>> THEN 0 ELSE Head(a) + 32768 * BigToInt(Tail(a))

\* a * k + carry, for 0 <= k <= 65535.
RECURSIVE BigMulCarry(_, _, _)
BigMulCarry(a, k, carry) ==
    IF a = <<>> THEN BigOfInt(carry)
    ELSE LET t == Head(a) * k + carry
         IN  <<t % 32768>> \o BigMulCarry(Tail(a), k, t \div 32768)
BigMulSmall(a, k) == BigTrim(BigMulCarry(a, k, 0))

\* Quotient and remainder of a by d, for 0 < d <= 65535.
RECURSIVE BigDivMod(_, _)
BigDivMod(a, d) ==
    IF a = <<>> THEN [q |-> <<>>, r |-> 0]
    ELSE LET high == BigDivMod(Tail(a), d)
             t == 32768 * high.r + Head(a)
         IN  [q |-> <<t \div d>> \o high.q, r |-> t % d]
BigDivSmall(a, d) == BigTrim(BigDivMod(a, d).q)

RECURSIVE BigAddCarry(_, _, _)
BigAddCarry(a, b, carry) ==
    IF a = <<>> /\ b = <<>> THEN BigOfInt(carry)
    ELSE LET x == IF a = <<>> THEN 0 ELSE Head(a)
             y == IF b = <<>> THEN 0 ELSE Head(b)
             t == x + y + carry
         IN  <<t % 32768>>
             \o BigAddCarry(IF a = <<>> THEN <<>> ELSE Tail(a),
                            IF b = <<>> THEN <<>> ELSE Tail(b), t \div 32768)
BigAdd(a, b) == BigTrim(BigAddCarry(a, b, 0))

\* -1, 0 or 1 as a is below, equal to or above b.
RECURSIVE BigCmp(_, _)
BigCmp(a, b) ==
    IF Len(a) # Len(b) THEN (IF Len(a) < Len(b) THEN 0 - 1 ELSE 1)
    ELSE IF a = <<>> THEN 0
    ELSE IF a[Len(a)] # b[Len(b)] THEN (IF a[Len(a)] < b[Len(b)] THEN 0 - 1 ELSE 1)
    ELSE BigCmp(SubSeq(a, 1, Len(a) - 1), SubSeq(b, 1, Len(b) - 1))

\* a - b - borrow, for a >= b.
RECURSIVE BigSubBorrow(_, _, _)
BigSubBorrow(a, b, borrow) ==
    IF a = <<>> THEN <<>>
    ELSE LET y == IF b = <<>> THEN 0 ELSE Head(b)
             t == Head(a) - y - borrow
         IN  <<(t + 32768) % 32768>>
             \o BigSubBorrow(Tail(a), IF b = <<>> THEN <<>> ELSE Tail(b),
                             IF t < 0 THEN 1 ELSE 0)
BigSub(a, b) == BigTrim(BigSubBorrow(a, b, 0))

RECURSIVE Pow2(_)
Pow2(n) == IF n = 0 THEN 1 ELSE 2 * Pow2(n - 1)

RECURSIVE BitLen(_)
BitLen(n) == IF n = 0 THEN 0 ELSE 1 + BitLen(n \div 2)
BigBitLen(a) == IF a = <<>> THEN 0 ELSE 15 * (Len(a) - 1) + BitLen(a[Len(a)])

\* a * 2^n and floor(a / 2^n).
BigShl(a, n) ==
    IF a = <<>> THEN <<>>
    ELSE [i \in 1..(n \div 15) |-> 0] \o BigMulSmall(a, Pow2(n % 15))
BigShr(a, n) ==
    IF n \div 15 >= Len(a) THEN <<>>
    ELSE BigDivSmall(SubSeq(a, n \div 15 + 1, Len(a)), Pow2(n % 15))

Float(neg, m, e) == [neg |-> neg, m |-> m, e |-> e]
FloatOfInt(x) == Float(x < 0, BigOfInt(IF x < 0 THEN 0 - x ELSE x), 0)

\* The float nearest to (-1)^neg * (big + fraction) * 2^e, where fraction is
\* in (0,1) if sticky and 0 otherwise; a sticky big has more than 53 bits.
RoundToFloat(neg, big, sticky, e) ==
    LET s == BigBitLen(big) - 53
    IN  IF s <= 0 THEN Float(neg /\ big # <<>>, big, e)
        ELSE LET q == BigShr(big, s)
                 rest == BigSub(big, BigShl(q, s))
                 c == BigCmp(rest, BigShl(<<1>>, s - 1))
                 up == c > 0 \/ (c = 0 /\ (sticky \/ q[1] % 2 = 1))
             IN  Float(neg, IF up THEN BigAdd(q, <<1>>) ELSE q, e + s)

\* f / d for an integer 0 < d <= 65535.
FloatDivInt(f, d) ==
    IF f.m = <<>> THEN f
    ELSE LET dm == BigDivMod(BigShl(f.m, 75), d)
         IN  RoundToFloat(f.neg, BigTrim(dm.q), dm.r # 0, f.e - 75)

\* f * k for an integer k, |k| <= 65535.
FloatMulInt(f, k) ==
    RoundToFloat(f.neg # (k < 0), BigMulSmall(f.m, IF k < 0 THEN 0 - k ELSE k),
                 FALSE, f.e)

\* f + g
FloatAdd(f, g) ==
    IF f.m = <<>> THEN g
    ELSE IF g.m = <<>> THEN f
    ELSE LET e == Min(f.e, g.e)
             x == BigShl(f.m, f.e - e)
             y == BigShl(g.m, g.e - e)
             c == BigCmp(x, y)
         IN  IF f.neg = g.neg THEN RoundToFloat(f.neg, BigAdd(x, y), FALSE, e)
             ELSE IF c = 0 THEN Float(FALSE, <<>>, 0)
             ELSE IF c > 0 THEN RoundToFloat(f.neg, BigSub(x, y), FALSE, e)
             ELSE RoundToFloat(g.neg, BigSub(y, x), FALSE, e)

\* int(f): the whole part, towards zero.
FloatToInt(f) ==
    LET whole == IF f.e >= 0 THEN BigShl(f.m, f.e) ELSE BigShr(f.m, 0 - f.e)
    IN  IF f.neg THEN 0 - BigToInt(whole) ELSE BigToInt(whole)

\* One signed 16-bit sample as its two bytes, and back.
SampleToBytes(x) ==
    LET u == IF x < 0 THEN x + 65536 ELSE x IN <<u % 256, u \div 256>>
BytesToSample(lo, hi) ==
    LET u == lo + 256 * hi IN IF u >= 32768 THEN u - 65536 ELSE u

\* array("h").tobytes()
tobytes(samples) ==
    [i \in 1..(2 * Len(samples)) |->
       SampleToBytes(samples[(i + 1) \div 2])[2 - (i % 2)]]

\* array("h").frombytes(b), for b of even length.
frombytes(b) ==
    [i \in 1..(Len(b) \div 2) |-> BytesToSample(b[2 * i - 1], b[2 * i])]

\* A returned bytes object, or the exception that left the function.
Returned(b) == [status |-> "ok", bytes |-> b]
Raises(e) == [status |-> e, bytes |-> <<>>]

\* b"\x00" * n
Zeros(n) == [i \in 1..n |-> 0]

\* int(sample_rate * (ms / 1000)), for ms > 0.
FramesIn(ms, sample_rate) ==
    FloatToInt(FloatMulInt(FloatDivInt(FloatOfInt(ms), 1000), sample_rate))

generate_silence(duration_ms, sample_rate, sample_width, channels) ==
    IF duration_ms <= 0 THEN <<>>
    ELSE Zeros(FramesIn(duration_ms, sample_rate) * channels * sample_width)

\* max(-32768, min(32767, mixed))
Clamp(mixed) == Max(0 - 32768, Min(32767, mixed))

\* The sample of the crossfade region at idx (from 0):
\* int(left_sample * left_gain + right_sample * right_gain), clamped.
Mixed(left_sample, right_sample, idx, fade_samples) ==
    LET left_gain == FloatDivInt(FloatOfInt(fade_samples - idx), fade_samples)
        right_gain == FloatDivInt(FloatOfInt(idx), fade_samples)
    IN  Clamp(FloatToInt(FloatAdd(FloatMulInt(left_gain, left_sample),
                                  FloatMulInt(right_gain, right_sample))))

\* A crossfade that keeps the whole left buffer before the mixed region.
LeftBeforeFade_all(left_samples, fade_samples) == left_samples

\* left_samples[:-fade_samples], for 0 < fade_samples <= len(left_samples).
LeftBeforeFade(left_samples, fade_samples) ==
    SubSeq(left_samples, 1, Len(left_samples) - fade_samples)

\* The array output as bytes; appending a value that is no signed 16-bit
\* number raises OverflowError.
ArrayBytes(samples) ==
    IF \A i \in 1..Len(samples) : samples[i] >= 0 - 32768 /\ samples[i] <= 32767
    THEN Returned(tobytes(samples))
    ELSE Raises("OverflowError")

\* A fade that is given up when a buffer is shorter than the window.
AdjustedFade_none_when_short(fade_samples, left_samples, right_samples) ==
    IF Len(left_samples) < fade_samples \/ Len(right_samples) < fade_samples
    THEN 0 ELSE fade_samples

\* fade_samples = min(fade_samples, len(left_samples), len(right_samples))
AdjustedFade(fade_samples, left_samples, right_samples) ==
    Min(fade_samples, Min(Len(left_samples), Len(right_samples)))

crossfade_pcm16(left, right, fade_samples) ==
    IF fade_samples <= 0 THEN Returned(left \o right)
    ELSE IF Len(left) % 2 # 0 \/ Len(right) % 2 # 0 THEN Raises("ValueError")
    ELSE LET left_samples == frombytes(left)
             right_samples == frombytes(right)
             fade == AdjustedFade(fade_samples, left_samples, right_samples)
         IN  IF fade = 0 THEN Returned(left \o right)
             ELSE ArrayBytes(
                    LeftBeforeFade(left_samples, fade)
                    \o [k \in 1..fade |->
                          Mixed(left_samples[Len(left_samples) - fade + k],
                                right_samples[k], k - 1, fade)]
                    \o SubSeq(right_samples, fade + 1, Len(right_samples)))

\* A join that puts the silence after the chunk.
PlainJoin_silence_last(combined, silence, chunk) == combined \o chunk \o silence

\* combined + silence + chunk
PlainJoin(combined, silence, chunk) == combined \o silence \o chunk

\* The arguments of stitch_audio_chunks other than chunks.
StitchArgs(sample_rate, sample_width, channels, crossfade_ms, silence_ms) ==
    [sample_rate |-> sample_rate, sample_width |-> sample_width,
     channels |-> channels, crossfade_ms |-> crossfade_ms,
     silence_ms |-> silence_ms]

\* fade_samples = int(sample_rate * (crossfade_ms / 1000)) * channels
FadeWindow(a) == FramesIn(a.crossfade_ms, a.sample_rate) * a.channels

\* The body of "for chunk in chunks[1:]".
StitchStep(combined, chunk, silence, a) ==
    IF a.crossfade_ms > 0 /\ a.sample_width = 2
    THEN LET fade_samples == FadeWindow(a)
             faded == crossfade_pcm16(combined, chunk, fade_samples)
         IN  IF faded.status = "ok" THEN Returned(faded.bytes \o silence)
             ELSE faded
    ELSE Returned(PlainJoin(combined, silence, chunk))

RECURSIVE StitchFrom(_, _, _, _)
StitchFrom(combined, rest, silence, a) ==
    IF rest = <<>> \/ combined.status # "ok" THEN combined
    ELSE StitchFrom(StitchStep(combined.bytes, Head(rest), silence, a),
                    Tail(rest), silence, a)

stitch_audio_chunks(chunks, a) ==
    IF chunks = <<>> THEN Returned(<<>>)
    ELSE IF Len(chunks) = 1 THEN Returned(chunks[1])
    ELSE StitchFrom(Returned(chunks[1]), Tail(chunks),
                    generate_silence(a.silence_ms, a.sample_rate, a.sample_width,
                                     a.channels), a)

\* max(abs(sample) for sample in samples)
Peak(samples) ==
    LET Abs(x) == IF x < 0 THEN 0 - x ELSE x
    IN  CHOOSE m \in {Abs(samples[i]) : i \in 1..Len(samples)} :
          \A i \in 1..Len(samples) : Abs(samples[i]) <= m

\* The target is not divided by the peak.
Scale_no_peak(target_peak, peak) == FloatMulInt(target_peak, 32767)

\* scale = (target_peak * 32767) / peak
Scale(target_peak, peak) == FloatDivInt(FloatMulInt(target_peak, 32767), peak)

\* The default of target_peak, 0.95.
default_target_peak == FloatDivInt(FloatOfInt(95), 100)

\* normalize_audio(audio, sample_width, target_peak): peak-normalized
\* samples, int(sample * scale) clamped.
normalize_audio(audio, sample_width, target_peak) ==
    IF audio = <<>> \/ sample_width # 2 THEN Returned(audio)
    ELSE IF Len(audio) % 2 # 0 THEN Raises("ValueError")
    ELSE LET samples == frombytes(audio)
         IN  IF Peak(samples) = 0 THEN Returned(audio)
             ELSE Returned(tobytes([i \in 1..Len(samples) |->
                     Clamp(FloatToInt(FloatMulInt(Scale(target_peak, Peak(samples)),
                                                  samples[i])))]))

\* ---- inputs
SampleValues == {0 - 32768, 1, 32767}
SampleRates == {500, 1000}
SampleWidths == {1, 2}
ChannelCounts == {1, 2}

\* All sequences over S of at most n elements.
RECURSIVE SeqsUpTo(_, _)
SeqsUpTo(S, n) ==
    IF n = 0 THEN {<<>>}
    ELSE LET shorter == SeqsUpTo(S, n - 1)
         IN  shorter \cup {Append(t, x) : t \in {u \in shorter : Len(u) = n - 1}, x \in S}

\* The bytes of every array of at most MaxSamples samples, and one buffer
\* that is no whole number of samples.
Pcm16Buffers == {tobytes(x) : x \in SeqsUpTo(SampleValues, MaxSamples)}
OddBuffer == <<7, 0, 9>>

\* The chunks a stitch call is given.
StitchChunks ==
    { <<>>, <<255, 127>>, <<1, 0, 0, 128>>, <<0, 128, 1, 0, 255, 127>>, OddBuffer }

NoStitchArgs == StitchArgs(0, 0, 0, 0, 0)

\* Arguments with the sample rates of speech models: 11 ms at 22050 Hz and
\* 9 ms at 24000 Hz.
SpeechRateArgs ==
    {StitchArgs(22050, sw, ch, 11, 11) : sw \in SampleWidths, ch \in ChannelCounts}
    \cup {StitchArgs(24000, 2, 1, 9, 9)}

\* The buffers a normalize call is given: the 16-bit buffers, silence, some
\* buffers of other sample values, and the buffer of three bytes.
NormalizeBuffers ==
    Pcm16Buffers
    \cup {tobytes(x) : x \in {<<0>>, <<0, 0>>, <<1000, 0 - 2000>>, <<0 - 3, 7, 0>>,
                              <<12345>>}}
    \cup {OddBuffer}

\* The target peaks of a normalize call, each the float nearest to the
\* fraction <<numerator, denominator>>: 0.95, 1.0, 0.5, 1/3, 0.001, 0.00005.
TargetPeaks == {<<95, 100>>, <<1, 1>>, <<1, 2>>, <<1, 3>>, <<1, 1000>>, <<1, 20000>>}
TargetPeak(fraction) == FloatDivInt(FloatOfInt(fraction[1]), fraction[2])

\* The arguments of a normalize call besides the buffer.
NormalizeArgs(sample_width, target_peak) ==
    [sample_width |-> sample_width, target_peak |-> target_peak]

\* One call of stitch_audio_chunks, of crossfade_pcm16 (chunks are then
\* left and right) or of normalize_audio (chunks is then the one buffer).
StitchCall(fn, chunks, a, fade_samples, phase, out) ==
    [phase |-> phase, fn |-> fn, chunks |-> chunks, args |-> a,
     fade_samples |-> fade_samples, out |-> out]

InitStitch ==
    /\ CacheAtRest
    /\ chunking = Off
    /\ validation = Off
    /\ synthesis = Off
    /\ transcription = Off
    /\ \/ stitching \in
            { StitchCall("stitch_audio_chunks", cs,
                         StitchArgs(sr, sw, ch, cf, sl), 0, "called", Returned(<<>>)) :
                cs \in SeqsUpTo(StitchChunks, MaxChunks), sr \in SampleRates,
                sw \in SampleWidths, ch \in ChannelCounts,
                cf \in 0..MaxCrossfadeMs, sl \in 0..MaxSilenceMs }
       \/ stitching \in
            { StitchCall("stitch_audio_chunks", cs, a, 0, "called", Returned(<<>>)) :
                cs \in SeqsUpTo(StitchChunks, 2), a \in SpeechRateArgs }
       \/ stitching \in
            { StitchCall("crossfade_pcm16", <<l, r>>, NoStitchArgs, f, "called",
                         Returned(<<>>)) :
                l \in Pcm16Buffers \cup {OddBuffer},
                r \in Pcm16Buffers \cup {OddBuffer},
                f \in 0..(MaxSamples + 1) }
       \/ stitching \in
            { StitchCall("normalize_audio", <<b>>, NormalizeArgs(sw, tp), 0, "called",
                         Returned(<<>>)) :
                b \in NormalizeBuffers, sw \in SampleWidths, tp \in TargetPeaks }

\* stitch_audio_chunks returns or raises; fade_samples is the fade window
\* its loop used, if it crossfaded.
StitchAudioChunks ==
    /\ stitching.phase = "called"
    /\ stitching.fn = "stitch_audio_chunks"
    /\ stitching' = [stitching EXCEPT
                       !.phase = "returned",
                       !.fade_samples =
                          IF /\ Len(stitching.chunks) > 1
                             /\ stitching.args.crossfade_ms > 0
                             /\ stitching.args.sample_width = 2
                          THEN FadeWindow(stitching.args) ELSE @,
                       !.out = stitch_audio_chunks(stitching.chunks, stitching.args)]
    /\ UNCHANGED <<chunking, validation, synthesis, transcription>>
    /\ UNCHANGED cache_vars

\* crossfade_pcm16 returns or raises.
CrossfadePcm16 ==
    /\ stitching.phase = "called"
    /\ stitching.fn = "crossfade_pcm16"
    /\ stitching' = [stitching EXCEPT
                       !.phase = "returned",
                       !.out = crossfade_pcm16(stitching.chunks[1],
                                               stitching.chunks[2],
                                               stitching.fade_samples)]
    /\ UNCHANGED <<chunking, validation, synthesis, transcription>>
    /\ UNCHANGED cache_vars

\* normalize_audio returns or raises.
NormalizeAudio ==
    /\ stitching.phase = "called"
    /\ stitching.fn = "normalize_audio"
    /\ stitching' = [stitching EXCEPT
                       !.phase = "returned",
                       !.out = normalize_audio(stitching.chunks[1],
                                               stitching.args.sample_width,
                                               TargetPeak(stitching.args.target_peak))]
    /\ UNCHANGED <<chunking, validation, synthesis, transcription>>
    /\ UNCHANGED cache_vars

NextStitch ==
    \/ StitchAudioChunks
    \/ CrossfadePcm16
    \/ NormalizeAudio

SpecStitch == InitStitch /\ [][NextStitch]_vars

\* ---------------------------------------------------------- stitcher claims
\* The buffers of chunks in their order with sep between every two of them.
RECURSIVE Interleaved(_, _)
Interleaved(chunks, sep) ==
    IF chunks = <<>> THEN <<>>
    ELSE IF Len(chunks) = 1 THEN chunks[1]
    ELSE chunks[1] \o sep \o Interleaved(Tail(chunks), sep)

StitchReturned ==
    stitching.phase = "returned" /\ stitching.fn = "stitch_audio_chunks"
NoCrossfade == stitching.args.crossfade_ms = 0 \/ stitching.args.sample_width # 2
SilenceOfCall ==
    generate_silence(stitching.args.silence_ms, stitching.args.sample_rate,
                     stitching.args.sample_width, stitching.args.channels)

\* C15: with crossfade_ms = 0 or a sample width other than 2, stitch returns
\* the chunks in their order with one silence buffer between every two
\* consecutive chunks and none before the first or after the last; no chunk
\* gives the empty buffer, one chunk is returned as it is, and two chunks
\* with no silence give len(a) + len(b) bytes.
C15_NoCrossfadeIsConcatenationWithSilence ==
    (StitchReturned /\ NoCrossfade)
    => /\ stitching.out = Returned(Interleaved(stitching.chunks, SilenceOfCall))
       /\ stitching.chunks = <<>> => stitching.out.bytes = <<>>
       /\ Len(stitching.chunks) = 1 => stitching.out.bytes = stitching.chunks[1]
       /\ (Len(stitching.chunks) = 2 /\ stitching.args.silence_ms = 0)
          => Len(stitching.out.bytes)
               = Len(stitching.chunks[1]) + Len(stitching.chunks[2])

\* Three chunks of 8-bit audio joined with silence although crossfade_ms > 0.
C15_Witness ==
    /\ StitchReturned
    /\ Len(stitching.chunks) = 3
    /\ \A i \in 1..3 : stitching.chunks[i] # <<>>
    /\ stitching.args.sample_width = 1
    /\ stitching.args.crossfade_ms > 0
    /\ SilenceOfCall # <<>>
    /\ stitching.out.status = "ok"

CrossfadeReturned ==
    stitching.phase = "returned" /\ stitching.fn = "crossfade_pcm16"
\* Both buffers are whole 16-bit samples and longer than the fade window.
LongerThanFade ==
    /\ stitching.fade_samples > 0
    /\ Len(stitching.chunks[1]) % 2 = 0
    /\ Len(stitching.chunks[2]) % 2 = 0
    /\ Len(stitching.chunks[1]) \div 2 > stitching.fade_samples
    /\ Len(stitching.chunks[2]) \div 2 > stitching.fade_samples

\* C16: for two 16-bit buffers a and b longer than the fade window the
\* crossfade returns len(a) + len(b) - 2 * fade_samples bytes: the samples of
\* a without its last fade_samples, then fade_samples mixed samples, then
\* the samples of b from index fade_samples on; every mixed sample is in
\* [-32768, 32767].
C16_CrossfadeSharesTheFadeRegion ==
    (CrossfadeReturned /\ LongerThanFade)
    => LET a == frombytes(stitching.chunks[1])
           b == frombytes(stitching.chunks[2])
           fade == stitching.fade_samples
           out == frombytes(stitching.out.bytes)
       IN  /\ stitching.out.status = "ok"
           /\ Len(stitching.out.bytes)
                = Len(stitching.chunks[1]) + Len(stitching.chunks[2]) - 2 * fade
           /\ SubSeq(out, 1, Len(a) - fade) = SubSeq(a, 1, Len(a) - fade)
           /\ SubSeq(out, Len(a) + 1, Len(out)) = SubSeq(b, fade + 1, Len(b))
           /\ \A k \in (Len(a) - fade + 1)..Len(a) :
                out[k] >= 0 - 32768 /\ out[k] <= 32767

\* Two buffers of three samples faded over two; the second mixed sample is
\* neither the left nor the right sample it was mixed from.
C16_Witness ==
    /\ CrossfadeReturned
    /\ LongerThanFade
    /\ stitching.fade_samples = 2
    /\ stitching.out.status = "ok"
    /\ LET a == frombytes(stitching.chunks[1])
           b == frombytes(stitching.chunks[2])
           out == frombytes(stitching.out.bytes)
       IN  /\ Len(a) = 3
           /\ Len(b) = 3
           /\ out[3] # a[3]
           /\ out[3] # b[2]

\* ======================================================= reference validator
\* src/coqui_service/utils/audio.py: validate_reference_audio and the two
\* functions it calls.  A clip is the length of the uploaded bytes and what
\* wave.open makes of them: a WAV header (parse "wav") with its frame count,
\* frame rate, channel count and sample width, a wave.Error, or another
\* exception (EOFError for a file cut short).

\* Defaults of the validators.
max_size_mb == 10
min_duration == 3
max_duration == 30
optimal_min == 6
optimal_max == 10
min_sample_rate == 16000
preferred_sample_rate == 22050

Clip(size, parse, frames, rate, channels, sampwidth) ==
    [size |-> size, parse |-> parse, frames |-> frames, rate |-> rate,
     channels |-> channels, sampwidth |-> sampwidth]

\* warning_message: None, or the warnings joined by "; ".
NoMessage == [none |-> TRUE, entries |-> <<>>]
Joined(warnings) ==
    IF warnings # <<>> THEN [none |-> FALSE, entries |-> warnings] ELSE NoMessage
\* "if x.warning_message"
Truthy(message) == ~message.none /\ message.entries # <<>>

\* AudioValidationResult
Invalid(error) ==
    [is_valid |-> FALSE, error_message |-> error, warning_message |-> NoMessage]
Valid(message) ==
    [is_valid |-> TRUE, error_message |-> "none", warning_message |-> message]

\* f < g for floats that are not negative.
FloatLess(f, g) ==
    LET e == Min(f.e, g.e)
    IN  BigCmp(BigShl(f.m, f.e - e), BigShl(g.m, g.e - e)) < 0

\* A minimum check that also rejects a clip of exactly min_duration.
TooShort_inclusive(duration) == ~FloatLess(FloatOfInt(min_duration), duration)

\* duration < min_duration, duration > max_duration
TooShort(duration) == FloatLess(duration, FloatOfInt(min_duration))
TooLong(duration) == FloatLess(FloatOfInt(max_duration), duration)

validate_audio_duration(clip) ==
    IF clip.parse = "wave_error" THEN Invalid("Invalid WAV file")
    ELSE IF clip.parse # "wav" \/ clip.rate = 0 THEN Invalid("Audio validation failed")
    ELSE LET duration == FloatDivInt(FloatOfInt(clip.frames), clip.rate)
         IN  IF TooShort(duration) THEN Invalid("Audio too short")
             ELSE IF TooLong(duration) THEN Invalid("Audio too long")
             ELSE Valid(IF FloatLess(duration, FloatOfInt(optimal_min))
                           \/ FloatLess(FloatOfInt(optimal_max), duration)
                        THEN Joined(<<"duration">>)
                        ELSE NoMessage)

\* A quality check that accepts every sample rate.
RateTooLow_never(sample_rate) == FALSE

\* sample_rate < min_sample_rate
RateTooLow(sample_rate) == sample_rate < min_sample_rate

\* Quality warnings without the one for the sample width.
QualityWarnings_no_width(clip) ==
    (IF clip.rate < preferred_sample_rate THEN <<"sample_rate">> ELSE <<>>)
    \o (IF clip.channels > 1 THEN <<"channels">> ELSE <<>>)

\* The list warnings of validate_audio_quality.
QualityWarnings(clip) ==
    (IF clip.rate < preferred_sample_rate THEN <<"sample_rate">> ELSE <<>>)
    \o (IF clip.channels > 1 THEN <<"channels">> ELSE <<>>)
    \o (IF clip.sampwidth < 2 THEN <<"sample_width">> ELSE <<>>)

validate_audio_quality(clip) ==
    IF clip.parse = "wave_error" THEN Invalid("Invalid WAV file")
    ELSE IF clip.parse # "wav" THEN Invalid("Quality validation failed")
    ELSE IF RateTooLow(clip.rate) THEN Invalid("Sample rate too low")
    ELSE Valid(Joined(QualityWarnings(clip)))

\* len(audio_bytes) / (1024 * 1024) > max_size_mb
TooLarge(size) == FloatLess(FloatOfInt(max_size_mb), Float(FALSE, BigOfInt(size), 0 - 20))

validate_reference_audio(clip) ==
    LET duration_result == validate_audio_duration(clip)
        quality_result == validate_audio_quality(clip)
    IN  IF TooLarge(clip.size) THEN Invalid("File too large")
        ELSE IF ~duration_result.is_valid THEN duration_result
        ELSE IF ~quality_result.is_valid THEN quality_result
        ELSE Valid(Joined(
               (IF Truthy(duration_result.warning_message)
                THEN duration_result.warning_message.entries ELSE <<>>)
               \o (IF Truthy(quality_result.warning_message)
                   THEN quality_result.warning_message.entries ELSE <<>>)))

\* ---- inputs
\* The largest accepted length in bytes.
LargestSize == max_size_mb * 1024 * 1024
FrameRates == {0, 8000, min_sample_rate - 1, min_sample_rate,
               preferred_sample_rate - 1, preferred_sample_rate, 44100}
\* Frame counts around every duration limit, for a frame rate.
FrameCounts(rate) ==
    { min_duration * rate - 1, min_duration * rate, optimal_min * rate - 1,
      optimal_min * rate, 8 * rate, optimal_max * rate, optimal_max * rate + 1,
      max_duration * rate, max_duration * rate + 1 } \ {0 - 1}
\* A WAV file is at least its 44-byte header and its frames.
WavSizes(frames, channels, sampwidth) ==
    {44 + frames * channels * sampwidth, LargestSize, LargestSize + 1}
ClipInputs ==
    { Clip(size, "wave_error", 0, 0, 0, 0) :
        size \in {22, LargestSize, LargestSize + 1} }
    \cup { Clip(size, "other_error", 0, 0, 0, 0) :
             size \in {0, 22, LargestSize, LargestSize + 1} }
    \cup UNION { UNION { { Clip(size, "wav", frames, rate, channels, sampwidth) :
                             size \in WavSizes(frames, channels, sampwidth) } :
                         frames \in FrameCounts(rate), channels \in ChannelCounts,
                         sampwidth \in SampleWidths } :
                 rate \in FrameRates }

\* One call of validate_reference_audio.
InitValidate ==
    /\ CacheAtRest
    /\ chunking = Off
    /\ stitching = Off
    /\ synthesis = Off
    /\ transcription = Off
    /\ validation \in { [phase |-> "called", clip |-> c, result |-> Invalid("none")] :
                          c \in ClipInputs }

\* validate_reference_audio returns.
ValidateReferenceAudio ==
    /\ validation.phase = "called"
    /\ validation' = [validation EXCEPT
                        !.phase = "returned",
                        !.result = validate_reference_audio(validation.clip)]
    /\ UNCHANGED <<chunking, stitching, synthesis, transcription>>
    /\ UNCHANGED cache_vars

NextValidate == ValidateReferenceAudio

SpecValidate == InitValidate /\ [][NextValidate]_vars

\* --------------------------------------------------------- validator claims
\* The five blocking checks, as conditions on the clip.
FailsSize == validation.clip.size > LargestSize
FailsParse == validation.clip.parse # "wav" \/ validation.clip.rate = 0
FailsMinDuration ==
    validation.clip.frames < min_duration * validation.clip.rate
FailsMaxDuration ==
    validation.clip.frames > max_duration * validation.clip.rate
FailsSampleRate == validation.clip.rate < min_sample_rate

\* The error of the first check that fails, "none" when none fails.
FirstFailure ==
    IF FailsSize THEN {"File too large"}
    ELSE IF FailsParse THEN {"Invalid WAV file", "Audio validation failed"}
    ELSE IF FailsMinDuration THEN {"Audio too short"}
    ELSE IF FailsMaxDuration THEN {"Audio too long"}
    ELSE IF FailsSampleRate THEN {"Sample rate too low"}
    ELSE {"none"}

\* C17: a clip is invalid exactly when it fails one of the five checks
\* (size, parse, minimum duration, maximum duration, sample rate), the error
\* is that of the first failing check in this order, and a clip exactly at
\* a limit passes that check.
C17_FirstFailingCheckDecides ==
    validation.phase = "returned"
    => /\ validation.result.error_message \in FirstFailure
       /\ validation.result.is_valid <=> FirstFailure = {"none"}

\* A clip that lies exactly on all four limits and is accepted.
C17_Witness ==
    /\ validation.phase = "returned"
    /\ validation.clip.size = LargestSize
    /\ validation.clip.rate = min_sample_rate
    /\ validation.clip.frames = max_duration * validation.clip.rate
    /\ validation.result.is_valid

\* The warnings that apply to the clip.
Applicable ==
    (IF \/ validation.clip.frames < optimal_min * validation.clip.rate
        \/ validation.clip.frames > optimal_max * validation.clip.rate
     THEN {"duration"} ELSE {})
    \cup (IF validation.clip.rate < preferred_sample_rate THEN {"sample_rate"} ELSE {})
    \cup (IF validation.clip.channels > 1 THEN {"channels"} ELSE {})
    \cup (IF validation.clip.sampwidth < 2 THEN {"sample_width"} ELSE {})

\* C18: a clip that passes the five blocking checks is valid whatever
\* warnings apply; its warning message holds one entry for every condition
\* that applies and no other, and is None exactly when none applies.
C18_WarningsNeverChangeTheVerdict ==
    (validation.phase = "returned" /\ FirstFailure = {"none"})
    => LET message == validation.result.warning_message
       IN  /\ validation.result.is_valid
           /\ {message.entries[i] : i \in 1..Len(message.entries)} = Applicable
           /\ Len(message.entries) = Cardinality(Applicable)
           /\ message.none <=> Applicable = {}

\* An accepted clip to which all four warnings apply.
C18_Witness ==
    /\ validation.phase = "returned"
    /\ validation.result.is_valid
    /\ Cardinality(Applicable) = 4
    /\ Len(validation.result.warning_message.entries) = 4

\* A stereo clip of 8000 Hz whose size and duration are within the limits.
Stereo8kHzWithinLimits ==
    /\ validation.phase = "returned"
    /\ validation.clip.parse = "wav"
    /\ validation.clip.channels = 2
    /\ validation.clip.rate = 8000
    /\ ~FailsSize
    /\ ~FailsMinDuration
    /\ ~FailsMaxDuration
WarnsOf(tag) ==
    \E i \in 1..Len(validation.result.warning_message.entries) :
      validation.result.warning_message.entries[i] = tag

\* C19 as claimed: a stereo clip of 8000 Hz within the size and duration
\* limits is accepted, without error, with the channel-count warning and
\* the sample-rate warning.
C19_Stereo8kHzIsAccepted ==
    Stereo8kHzWithinLimits
    => /\ validation.result.is_valid
       /\ validation.result.error_message = "none"
       /\ WarnsOf("channels")
       /\ WarnsOf("sample_rate")

\* C19, amended: a stereo clip of 8000 Hz within the size and duration
\* limits is rejected with the sample-rate error and no warning; a stereo
\* clip within the limits whose rate is at least min_sample_rate and below
\* preferred_sample_rate is accepted with both warnings.
C19_Stereo8kHzIsRejected ==
    /\ Stereo8kHzWithinLimits
       => /\ ~validation.result.is_valid
          /\ validation.result.error_message = "Sample rate too low"
          /\ validation.result.warning_message = NoMessage
    /\ ( /\ validation.phase = "returned"
         /\ FirstFailure = {"none"}
         /\ validation.clip.channels = 2
         /\ validation.clip.rate < preferred_sample_rate )
       => /\ validation.result.is_valid
          /\ validation.result.error_message = "none"
          /\ WarnsOf("channels")
          /\ WarnsOf("sample_rate")

\* The validator has returned for an 8-second stereo clip of 8000 Hz.
C19_Witness ==
    /\ Stereo8kHzWithinLimits
    /\ validation.clip.frames = 8 * validation.clip.rate

\* ======================================================== synthesis requests
\* src/coqui_service/routes.py: text_to_speech (POST /tts) and voice_clone
\* (POST /voice-clone), with the engine calls of src/coqui_service/engine.py
\* and normalize_audio, wrap_wav of audio.py.  One request is followed from
\* its arrival to its response; every call of the engine is a step of its
\* own, so that the order of the calls can be observed.

\* TTSEngine.sample_rate
engine_sample_rate == 22050

\* wrap_wav(audio_pcm, sample_rate): a mono 16-bit WAV file of the bytes.
wrap_wav(audio_pcm, sample_rate) ==
    [format |-> "wav", sample_rate |-> sample_rate, sample_width |-> 2,
     channels |-> 1, frames |-> audio_pcm]

\* A response: the status, an error code or detail, the X-Chunks header
\* (-1 when there is none) and the audio content.
Response(status, code, x_chunks, content) ==
    [status |-> status, code |-> code, x_chunks |-> x_chunks, content |-> content]

\* The except clauses of the two handlers, for an exception of the class
\* given (status and detail are those of an HTTPException).  text_to_speech
\* has a clause for ValueError and one for Exception; voice_clone raises an
\* HTTPException again and has one clause for Exception.
ErrorResponse(endpoint, class, status, detail) ==
    IF endpoint = "tts"
    THEN IF class = "ValueError"
         THEN Response(400, "invalid_speaker", 0 - 1, <<>>)
         ELSE Response(500, "synthesis_failed", 0 - 1, <<>>)
    ELSE IF class = "HTTPException"
         THEN Response(status, detail, 0 - 1, <<>>)
         ELSE Response(500, "voice_clone_failed", 0 - 1, <<>>)

\* What voice_clone passes as reference_audio_bytes: ref_audio_bytes_list,
\* a list of the files' bytes.
CloneArgument == "list"

\* What a call of the engine does.  synthesize_builtin returns PCM, raises
\* ValueError for an unknown speaker or RuntimeError.  synthesize_clone
\* writes its argument to a temporary file: bytes are written and the model
\* returns PCM or raises; the write of a list raises TypeError.  Every
\* exception leaves synthesize_clone as RuntimeError.
SynthOutcomes(endpoint) ==
    IF endpoint = "tts"
    THEN {Returned(tobytes(<<1000>>)), Returned(tobytes(<<0 - 2000, 3000>>)),
          Raises("ValueError"), Raises("RuntimeError")}
    ELSE IF CloneArgument = "bytes"
    THEN {Returned(tobytes(<<1000>>)), Raises("RuntimeError")}
    ELSE {Raises("RuntimeError")}

\* Temporary files.  validate_audio_duration and validate_audio_quality
\* each open NamedTemporaryFile(delete=True) in a with block: the file is
\* gone when the block is left.  MadeByValidation counts the files that
\* validate_reference_audio makes for one reference file: none for an
\* oversized file, one when the duration check refuses the file, else two.
MadeByValidation(clip) ==
    IF TooLarge(clip.size) THEN 0
    ELSE IF ~validate_audio_duration(clip).is_valid THEN 1
    ELSE 2

\* synthesize_clone opens NamedTemporaryFile(delete=False), writes its
\* argument and only then sets temp_file to the name of the file; the
\* finally block removes temp_file when it is set.  TempAfterClone is the
\* set of temporary files left when the call of the file named ends.
TempAfterClone(temp, name, argument) ==
    IF argument = "bytes" THEN temp \ {name} ELSE temp

\* An append at the wrong end of the list.
AppendPcm_front(audio_chunks, pcm) == <<pcm>> \o audio_chunks

\* audio_chunks.append(pcm)
AppendPcm(audio_chunks, pcm) == Append(audio_chunks, pcm)

\* ---- inputs
\* Texts (of one character at least, as TTSRequest and the form field
\* demand): whitespace, one short sentence, two and three sentences of
\* 31 words that pass max_words together, two sentences of one word that
\* pass max_chars together, one short sentence after a long one (merged
\* into it).
SynthTexts ==
    LET Repeat(s, n) == [i \in 1..(n * Len(s)) |-> s[((i - 1) % Len(s)) + 1]]
        Sentence(n) == Repeat(<<"a", " ">>, n - 1) \o <<"a", ".">>
        LongWord(n) == Repeat(<<"a">>, n - 1) \o <<".">>
    IN  { <<" ">>, <<" ", " ">>, Sentence(3),
          Sentence(31) \o <<" ">> \o Sentence(31),
          Sentence(31) \o <<" ">> \o Sentence(31) \o <<" ">> \o Sentence(31),
          LongWord(150) \o <<" ">> \o LongWord(60),
          LongWord(190) \o <<" ">> \o LongWord(30) }

\* Lists of reference files: none, one good clip of 8 s, two good clips, a good clip and a
\* file that is no WAV file, six good clips.
RefLists ==
    LET GoodClip == Clip(44 + 16 * engine_sample_rate, "wav",
                         8 * engine_sample_rate, engine_sample_rate, 1, 2)
        BadClip == Clip(22, "wave_error", 0, 0, 0, 0)
    IN  { <<>>, <<GoodClip>>, <<GoodClip, GoodClip>>, <<GoodClip, BadClip>>,
          [i \in 1..6 |-> GoodClip] }

\* One request.  calls, results and stitched are the history of the
\* request: the chunk (index and text) of every engine call, the PCM every
\* call returned, and the list given to stitch_audio_chunks.  temp is the
\* set of temporary files of the request that exist (a file of
\* synthesize_clone is named by the index of its call), temp_made the
\* number of temporary files made so far.  reading is the index of the
\* reference file whose "await audio_file.read()" the handler has reached
\* (0 before the handler runs): the handler gives up the event loop there,
\* so the files are validated one per step.
Request(endpoint, text, refs) ==
    [phase |-> "received", endpoint |-> endpoint, text |-> text, refs |-> refs,
     chunks |-> <<>>, audio_chunks |-> <<>>, calls |-> <<>>, results |-> <<>>,
     stitched |-> [called |-> FALSE, chunks |-> <<>>],
     response |-> Response(0, "", 0 - 1, <<>>),
     temp |-> {}, temp_made |-> 0, reading |-> 0]

InitSynth ==
    /\ CacheAtRest
    /\ chunking = Off
    /\ stitching = Off
    /\ validation = Off
    /\ transcription = Off
    /\ \/ synthesis \in {Request("tts", t, <<>>) : t \in SynthTexts}
       \/ synthesis \in {Request("voice_clone", t, r) : t \in SynthTexts, r \in RefLists}

\* The handler ends with a response.
Respond(response) ==
    synthesis' = [synthesis EXCEPT !.phase = "responded", !.response = response]

\* voice_clone from its start to the first "await audio_file.read()": the
\* number of reference files is checked.
CheckReferenceCount ==
    /\ synthesis.phase = "received"
    /\ synthesis.endpoint = "voice_clone"
    /\ synthesis.reading = 0
    /\ IF synthesis.refs = <<>>
       THEN Respond(ErrorResponse("voice_clone", "HTTPException", 400,
                                  "At least one reference audio file is required"))
       ELSE IF Len(synthesis.refs) > 5
       THEN Respond(ErrorResponse("voice_clone", "HTTPException", 400,
                                  "Maximum 5 reference audio files allowed"))
       ELSE synthesis' = [synthesis EXCEPT !.reading = 1]
    /\ UNCHANGED <<chunking, stitching, validation, transcription>>
    /\ UNCHANGED cache_vars

\* One turn of the loop over reference_audio: read() returns and the file is
\* validated.  A file refused ends the request with 400; otherwise the
\* handler reaches the read() of the next file, or leaves the loop after
\* the last one.
ValidateReferences ==
    /\ synthesis.phase = "received"
    /\ synthesis.reading >= 1
    /\ LET idx == synthesis.reading
           audio_bytes == synthesis.refs[idx]
           made == synthesis.temp_made + MadeByValidation(audio_bytes)
       IN  IF ~validate_reference_audio(audio_bytes).is_valid
           THEN synthesis' = [synthesis EXCEPT
                                !.phase = "responded",
                                !.response = ErrorResponse("voice_clone", "HTTPException",
                                                           400, "Reference audio invalid"),
                                !.temp_made = made]
           ELSE IF idx < Len(synthesis.refs)
           THEN synthesis' = [synthesis EXCEPT !.reading = idx + 1, !.temp_made = made]
           ELSE synthesis' = [synthesis EXCEPT !.phase = "validated", !.temp_made = made]
    /\ UNCHANGED <<chunking, stitching, validation, transcription>>
    /\ UNCHANGED cache_vars

\* chunk_text(text, max_chars=200, max_words=60); no chunk raises
\* HTTPException(400, "Empty text input") inside the try block.
ChunkRequest ==
    /\ \/ synthesis.phase = "received" /\ synthesis.endpoint = "tts"
       \/ synthesis.phase = "validated"
    /\ LET chunks == chunk_text(synthesis.text, 200, 60, 40, TRUE)
       IN  IF chunks = <<>>
           THEN Respond(ErrorResponse(synthesis.endpoint, "HTTPException", 400,
                                      "Empty text input"))
           ELSE synthesis' = [synthesis EXCEPT !.phase = "loop", !.chunks = chunks]
    /\ UNCHANGED <<chunking, stitching, validation, transcription>>
    /\ UNCHANGED cache_vars

\* The loop calls the engine for the next chunk; synthesize_clone makes its
\* temporary file.
SynthCall ==
    /\ synthesis.phase = "loop"
    /\ Len(synthesis.audio_chunks) < Len(synthesis.chunks)
    /\ LET idx == Len(synthesis.audio_chunks) + 1
           clone == synthesis.endpoint = "voice_clone"
       IN  synthesis' = [synthesis EXCEPT
                           !.phase = "in_call",
                           !.calls = Append(@, [idx |-> idx, text |-> synthesis.chunks[idx]]),
                           !.temp = IF clone THEN @ \cup {idx} ELSE @,
                           !.temp_made = IF clone THEN @ + 1 ELSE @]
    /\ UNCHANGED <<chunking, stitching, validation, transcription>>
    /\ UNCHANGED cache_vars

\* The engine call returns PCM, which is appended, or raises; the finally
\* block of synthesize_clone has run.
SynthReturn ==
    /\ synthesis.phase = "in_call"
    /\ \E outcome \in SynthOutcomes(synthesis.endpoint) :
         IF outcome.status = "ok"
         THEN synthesis' = [synthesis EXCEPT
                              !.phase = "loop",
                              !.audio_chunks = AppendPcm(@, outcome.bytes),
                              !.results = Append(@, outcome.bytes),
                              !.temp = IF synthesis.endpoint = "voice_clone"
                                       THEN TempAfterClone(@, Len(synthesis.calls),
                                                           CloneArgument)
                                       ELSE @]
         ELSE synthesis' = [synthesis EXCEPT
                              !.phase = "responded",
                              !.response = ErrorResponse(synthesis.endpoint,
                                                         outcome.status, 0, ""),
                              !.temp = IF synthesis.endpoint = "voice_clone"
                                       THEN TempAfterClone(@, Len(synthesis.calls),
                                                           CloneArgument)
                                       ELSE @]
    /\ UNCHANGED <<chunking, stitching, validation, transcription>>
    /\ UNCHANGED cache_vars

\* Only the first buffer is kept.
Combined_first(audio_chunks) == Returned(audio_chunks[1])

\* Two buffers or more are stitched with a crossfade of 40 ms; one is taken
\* as it is.
Combined(audio_chunks) ==
    IF Len(audio_chunks) > 1
    THEN stitch_audio_chunks(audio_chunks, StitchArgs(engine_sample_rate, 2, 1, 40, 0))
    ELSE Returned(audio_chunks[1])

\* The end of the try block: the combined audio is normalized, wrapped and
\* returned with the chunk count; an exception of stitching or normalizing
\* goes to the except clauses.
AudioResponse(endpoint, x_chunks, combined) ==
    LET normalized == IF combined.status = "ok"
                      THEN normalize_audio(combined.bytes, 2, default_target_peak) ELSE combined
    IN  IF normalized.status = "ok"
        THEN Response(200, "ok", x_chunks,
                      wrap_wav(normalized.bytes, engine_sample_rate))
        ELSE ErrorResponse(endpoint, normalized.status, 0, "")

\* After the loop: stitch, normalize, wrap, respond.
Finish ==
    /\ synthesis.phase = "loop"
    /\ Len(synthesis.audio_chunks) = Len(synthesis.chunks)
    /\ synthesis' = [synthesis EXCEPT
                       !.phase = "responded",
                       !.response = AudioResponse(synthesis.endpoint,
                                                  Len(synthesis.audio_chunks),
                                                  Combined(synthesis.audio_chunks)),
                       !.stitched = IF Len(synthesis.audio_chunks) > 1
                                    THEN [called |-> TRUE,
                                          chunks |-> synthesis.audio_chunks]
                                    ELSE @]
    /\ UNCHANGED <<chunking, stitching, validation, transcription>>
    /\ UNCHANGED cache_vars

NextSynth ==
    \/ CheckReferenceCount
    \/ ValidateReferences
    \/ ChunkRequest
    \/ SynthCall
    \/ SynthReturn
    \/ Finish

SpecSynth == InitSynth /\ [][NextSynth]_vars

\* ================================================== transcription requests
\* str.lower on the letters of the file names used here.
Lower(c) == CASE c = "M" -> "m" [] c = "W" -> "w" [] OTHER -> c

\* source_format of transcribe_audio: "auto" without a file name or without
\* a dot in it, otherwise what follows the last dot, in lower case.
SourceFormat(filename) ==
    LET dots == {i \in 1..Len(filename) : filename[i] = "."} IN
    IF dots = {} THEN <<"a", "u", "t", "o">>
    ELSE LET last == CHOOSE i \in dots : \A j \in dots : j <= i
         IN  [k \in 1..(Len(filename) - last) |-> Lower(filename[last + k])]

\* A temporary file, and a path variable that is None or not yet assigned.
TempFile(role, suffix) == [role |-> role, suffix |-> suffix]
NoPath == TempFile("none", <<>>)
InputFile(source_format) == TempFile("input", <<".">> \o source_format)
OutputFile == TempFile("output", <<".", "w", "a", "v">>)

\* os.remove(path) of a path that is bound (the "in locals()" test of the
\* CalledProcessError clause), and cleanup_temp_file.
RemoveBound(present, path) == IF path = NoPath THEN present ELSE present \ {path}
cleanup_temp_file(present, file_path) ==
    IF file_path # NoPath /\ file_path \in present THEN present \ {file_path}
    ELSE present

\* The except clauses of convert_to_wav for an exception of class exc raised
\* in its try block.  "import subprocess" inside the function makes the name
\* local: before that line has run, evaluating "except
\* subprocess.CalledProcessError" raises UnboundLocalError, which leaves the
\* function.  Afterwards CalledProcessError removes the paths that are bound,
\* and any other exception removes nothing; both raise RuntimeError.
ConvertExcept(t, present, exc) ==
    IF ~t.subprocess THEN [raises |-> "UnboundLocalError", files |-> present]
    ELSE IF exc = "CalledProcessError"
    THEN [raises |-> "RuntimeError",
          files |-> RemoveBound(RemoveBound(present, t.input_path), t.output_path)]
    ELSE [raises |-> "RuntimeError", files |-> present]

\* The except clauses of transcribe_audio.
Answer(status, detail) == [status |-> status, detail |-> detail]
RouteExcept(class) ==
    CASE class = "empty_upload" -> Answer(400, "Uploaded file is empty")
      [] class = "ValueError" -> Answer(400, "ValueError")
      [] OTHER -> Answer(500, "Transcription failed")

\* The request ends: the finally clause cleans wav_path up when it is set.
EndRequest(t, present, wav_path, response) ==
    [t EXCEPT !.phase = "responded",
              !.files = cleanup_temp_file(present, wav_path),
              !.wav_path = wav_path,
              !.response = response]

\* convert_to_wav left by an exception: wav_path of the route stays None.
ConvertFailed(t, present, exc) ==
    LET left == ConvertExcept(t, present, exc) IN
    EndRequest([t EXCEPT !.raised = left.raises], left.files, NoPath,
               RouteExcept(left.raises))

\* ---- inputs
Uploads == {<<>>, <<1>>, <<1, 2>>}
Filenames == {<<>>, <<"a">>, <<"a", ".", "M">>, <<"a", ".", "b", ".", "W">>, <<"a", ".">>}

TranscribeRequest(audio_bytes, filename, language) ==
    [phase |-> "received", audio_bytes |-> audio_bytes, filename |-> filename,
     language |-> language, source_format |-> <<>>, files |-> {},
     input_path |-> NoPath, output_path |-> NoPath, wav_path |-> NoPath,
     subprocess |-> FALSE, raised |-> "", response |-> Answer(0, "")]

InitTranscribe ==
    /\ CacheAtRest
    /\ chunking = Off
    /\ stitching = Off
    /\ validation = Off
    /\ synthesis = Off
    /\ transcription \in {TranscribeRequest(b, f, l) :
                            b \in Uploads, f \in Filenames, l \in {"auto", "en"}}

\* transcribe_audio up to the call of convert_to_wav: an empty upload is
\* answered 400 before anything is created.
ReadUpload ==
    /\ transcription.phase = "received"
    /\ transcription' =
         IF transcription.audio_bytes = <<>>
         THEN EndRequest(transcription, transcription.files, NoPath,
                         RouteExcept("empty_upload"))
         ELSE [transcription EXCEPT
                 !.phase = "input",
                 !.source_format = SourceFormat(transcription.filename)]
    /\ UNCHANGED <<chunking, stitching, validation, synthesis>>
    /\ UNCHANGED cache_vars

\* convert_to_wav: the NamedTemporaryFile(delete=False) block.  The file is
\* created and written and input_path is bound; or creating it raises; or
\* the write raises after the file was created, before input_path is bound.
MakeInput ==
    /\ transcription.phase = "input"
    /\ \E outcome \in {"ok", "not_created", "write_failed"} :
         LET f == InputFile(transcription.source_format)
             t == transcription
         IN  transcription' =
               CASE outcome = "ok" ->
                      [t EXCEPT !.phase = "output", !.input_path = f,
                                !.files = @ \cup {f}]
                 [] outcome = "not_created" -> ConvertFailed(t, t.files, "OSError")
                 [] OTHER -> ConvertFailed(t, t.files \cup {f}, "OSError")
    /\ UNCHANGED <<chunking, stitching, validation, synthesis>>
    /\ UNCHANGED cache_vars

\* convert_to_wav: tempfile.mkstemp(suffix=".wav") and os.close.
MakeOutput ==
    /\ transcription.phase = "output"
    /\ \E created \in BOOLEAN :
         LET t == transcription IN
         transcription' =
           IF created
           THEN [t EXCEPT !.phase = "ffmpeg", !.output_path = OutputFile,
                          !.files = @ \cup {OutputFile}]
           ELSE ConvertFailed(t, t.files, "OSError")
    /\ UNCHANGED <<chunking, stitching, validation, synthesis>>
    /\ UNCHANGED cache_vars

\* convert_to_wav: "import subprocess" and subprocess.run(check=True).  The
\* tool succeeds, the input file is removed and the output path returned; or
\* the tool exits with an error (CalledProcessError); or run raises another
\* exception (no ffmpeg executable: FileNotFoundError).
RunFfmpeg ==
    /\ transcription.phase = "ffmpeg"
    /\ \E outcome \in {"ok", "CalledProcessError", "FileNotFoundError"} :
         LET t == [transcription EXCEPT !.subprocess = TRUE] IN
         transcription' =
           IF outcome = "ok"
           THEN [t EXCEPT !.phase = "converted",
                          !.files = RemoveBound(@, t.input_path),
                          !.wav_path = t.output_path]
           ELSE ConvertFailed(t, t.files, outcome)
    /\ UNCHANGED <<chunking, stitching, validation, synthesis>>
    /\ UNCHANGED cache_vars

\* engine.transcribe and the building of the response: it returns, or its
\* result lacks a key, or the engine raises; then the finally clause.
Transcribe ==
    /\ transcription.phase = "converted"
    /\ \E outcome \in {"returned", "KeyError", "ValueError", "RuntimeError"} :
         LET t == transcription IN
         transcription' =
           IF outcome = "returned"
           THEN EndRequest(t, t.files, t.wav_path, Answer(200, "TranscribeResponse"))
           ELSE EndRequest([t EXCEPT !.raised = outcome], t.files, t.wav_path,
                           RouteExcept(outcome))
    /\ UNCHANGED <<chunking, stitching, validation, synthesis>>
    /\ UNCHANGED cache_vars

NextTranscribe ==
    \/ ReadUpload
    \/ MakeInput
    \/ MakeOutput
    \/ RunFfmpeg
    \/ Transcribe

SpecTranscribe == InitTranscribe /\ [][NextTranscribe]_vars

\* ---------------------------------------------------------- synthesis claims
\* C20: in one synthesis request the engine is called for the chunks in
\* chunk order, one call per chunk and the next call only after the one
\* before has returned; the list given to the stitcher holds the PCM results
\* in that order; in an audio response the number of buffers and the
\* reported chunk count are the number of chunks of the chunker.
C20_ChunksAreSynthesizedAndStitchedInOrder ==
    synthesis.phase # "off"
    => /\ Len(synthesis.calls) <= Len(synthesis.chunks)
       /\ \A k \in 1..Len(synthesis.calls) :
            synthesis.calls[k] = [idx |-> k, text |-> synthesis.chunks[k]]
       /\ synthesis.phase = "in_call"
          => Len(synthesis.results) = Len(synthesis.calls) - 1
       /\ synthesis.phase = "loop"
          => Len(synthesis.results) = Len(synthesis.calls)
       /\ synthesis.audio_chunks = synthesis.results
       /\ synthesis.stitched.called
          => synthesis.stitched.chunks = synthesis.results
       /\ synthesis.response.status = 200
          => /\ synthesis.chunks
                  = chunk_text(synthesis.text, 200, 60, 40, TRUE)
             /\ Len(synthesis.calls) = Len(synthesis.chunks)
             /\ Len(synthesis.results) = Len(synthesis.chunks)
             /\ synthesis.response.x_chunks = Len(synthesis.chunks)
             /\ Len(synthesis.chunks) > 1 => synthesis.stitched.called

\* A request of three chunks answered with audio, whose first and last
\* buffers differ.
C20_Witness ==
    /\ synthesis.phase = "responded"
    /\ synthesis.response.status = 200
    /\ Len(synthesis.chunks) = 3
    /\ synthesis.stitched.called
    /\ synthesis.results[1] # synthesis.results[3]

\* The audio of all the buffers a request's engine calls returned: stitched
\* in their order when there are several, then normalized and wrapped.
WholeAudio ==
    LET stitched == IF Len(synthesis.results) > 1
                    THEN stitch_audio_chunks(synthesis.results,
                           StitchArgs(engine_sample_rate, 2, 1, 40, 0))
                    ELSE Returned(synthesis.results[1])
    IN  wrap_wav(normalize_audio(stitched.bytes, 2, default_target_peak).bytes,
                 engine_sample_rate)

\* C21: a request completes or fails as a whole.  A response with audio is
\* given only when every chunk got its buffer, and its content is the audio
\* of all of them; every other response is an error without audio bytes, in
\* particular the response of a request one of whose engine calls raised.
C21_AudioOfAllChunksOrNoAudio ==
    synthesis.phase = "responded"
    => /\ synthesis.response.status = 200
          => /\ Len(synthesis.results) = Len(synthesis.chunks)
             /\ Len(synthesis.chunks) > 0
             /\ synthesis.response.content = WholeAudio
       /\ synthesis.response.status # 200
          => /\ synthesis.response.status >= 400
             /\ synthesis.response.content = <<>>
       /\ Len(synthesis.calls) > Len(synthesis.results)
          => synthesis.response.status # 200

\* The third engine call of a request raised after two had returned audio,
\* and the response carries none of it.
C21_Witness ==
    /\ synthesis.phase = "responded"
    /\ Len(synthesis.results) = 2
    /\ Len(synthesis.calls) = 3
    /\ synthesis.response.status = 500
    /\ synthesis.response.content = <<>>

\* C22: a request whose text gives no chunk is answered as an input error:
\* the engine is never called for it, the status is a client error, and the
\* code is not that of a failed synthesis.
C22_NoChunkIsAClientError ==
    synthesis.phase # "off" /\ chunk_text(synthesis.text, 200, 60, 40, TRUE) = <<>>
    => /\ synthesis.calls = <<>>
       /\ synthesis.phase = "responded"
          => /\ synthesis.response.status \in 400..499
             /\ synthesis.response.code \notin {"synthesis_failed", "voice_clone_failed"}

\* C23: no temporary file that holds reference audio outlives the operation
\* that made it: outside a call of the engine the request has no temporary
\* file, whether validation refused a file, synthesis returned, or the
\* engine call raised.
C23_NoTemporaryFileOutlivesItsOperation ==
    synthesis.phase \in {"validated", "loop", "responded"} => synthesis.temp = {}

\* ------------------------------------------------------- normalizer claims
\* round(f) for a float that is not negative: the nearest integer, the even
\* one of two that are equally near.
RoundHalfEven(f) ==
    LET whole == FloatToInt(f)
        rest == FloatAdd(f, FloatOfInt(0 - whole))
        half == FloatDivInt(FloatOfInt(1), 2)
    IN  IF FloatLess(half, rest) THEN whole + 1
        ELSE IF FloatLess(rest, half) THEN whole
        ELSE whole + (whole % 2)

NormalizeReturned ==
    stitching.phase = "returned" /\ stitching.fn = "normalize_audio"
\* The buffer of the call is whole 16-bit samples, not all of them zero.
NonSilent16Bit ==
    /\ stitching.args.sample_width = 2
    /\ stitching.chunks[1] # <<>>
    /\ Len(stitching.chunks[1]) % 2 = 0
    /\ Peak(frombytes(stitching.chunks[1])) # 0

\* C24: for a non-silent 16-bit buffer normalize returns a buffer of the
\* same length whose samples are in [-32768, 32767] and whose largest
\* absolute sample is within 1 of round(target_peak * 32767); an all-zero
\* buffer, an empty buffer and a buffer of another sample width are
\* returned unchanged.
C24_NormalizedPeakIsTheTarget ==
    NormalizeReturned
    => LET audio == stitching.chunks[1]
           out == stitching.out
           target == RoundHalfEven(FloatMulInt(TargetPeak(stitching.args.target_peak),
                                               32767))
       IN  /\ NonSilent16Bit
              => /\ out.status = "ok"
                 /\ Len(out.bytes) = Len(audio)
                 /\ \A k \in 1..Len(frombytes(out.bytes)) :
                      /\ frombytes(out.bytes)[k] >= 0 - 32768
                      /\ frombytes(out.bytes)[k] <= 32767
                 /\ Peak(frombytes(out.bytes)) - target \in {0 - 1, 0, 1}
           /\ (\/ audio = <<>>
               \/ stitching.args.sample_width # 2
               \/ Len(audio) % 2 = 0 /\ Peak(frombytes(audio)) = 0)
              => out = Returned(audio)

\* A buffer whose peak is the sample -32768 was normalized to half scale:
\* the samples changed and the largest is 16383 or 16384.
C24_Witness ==
    /\ NormalizeReturned
    /\ NonSilent16Bit
    /\ stitching.args.target_peak = <<1, 2>>
    /\ Peak(frombytes(stitching.chunks[1])) = 32768
    /\ Len(stitching.chunks[1]) = 6
    /\ stitching.out.bytes # stitching.chunks[1]
    /\ Peak(frombytes(stitching.out.bytes)) \in {16383, 16384}

\* ------------------------------------------------------ more cache claims
\* C25: a get answered by a refresh whose discovery was not empty returns
\* the record the refresh persisted: the names returned are the names in
\* the file, in the same order, and so is the count; a get on the fresh
\* record right after returns the same names.
C25_RefreshReturnsThePersistedRecord ==
    [][ \A p \in CallIds :
          (RefreshReturnStep(p) /\ Discovered(tts_model) # <<>>)
          => /\ ValidRecord(file')
             /\ result'[p].speakers = file'.speakers.v
             /\ result'[p].count = file'.count.v
             /\ result'[p].speakers = HitResult(file', now').speakers ]_vars

\* ---------------------------------------------------- more stitcher claims
\* Both buffers of a crossfade call are whole 16-bit samples, the fade
\* window is positive and one of the buffers has fewer samples than it.
ShorterThanFade ==
    /\ stitching.fade_samples > 0
    /\ Len(stitching.chunks[1]) % 2 = 0
    /\ Len(stitching.chunks[2]) % 2 = 0
    /\ \/ Len(stitching.chunks[1]) \div 2 < stitching.fade_samples
       \/ Len(stitching.chunks[2]) \div 2 < stitching.fade_samples

\* C26 as stated: when one of the two buffers has fewer samples than the
\* fade window, the crossfade returns the left buffer followed by the right
\* buffer, every sample unchanged.
C26_ShortBufferIsPlainConcatenation ==
    (CrossfadeReturned /\ ShorterThanFade)
    => stitching.out = Returned(stitching.chunks[1] \o stitching.chunks[2])

\* C26 amended: when one of the two buffers has fewer samples than the fade
\* window, the window becomes the number of samples of the shorter buffer:
\* the result has that many samples fewer than the two buffers together
\* (the left samples before the window, the mixed samples, the right
\* samples after the window), and it is the plain concatenation only when
\* a buffer is empty.
C26_ShortBufferShortensTheFade ==
    (CrossfadeReturned /\ ShorterThanFade)
    => LET a == frombytes(stitching.chunks[1])
           b == frombytes(stitching.chunks[2])
           fade == Min(Len(a), Len(b))
           out == frombytes(stitching.out.bytes)
       IN  /\ stitching.out.status = "ok"
           /\ Len(out) = Len(a) + Len(b) - fade
           /\ SubSeq(out, 1, Len(a) - fade) = SubSeq(a, 1, Len(a) - fade)
           /\ \A k \in 1..fade :
                out[Len(a) - fade + k] = Mixed(a[Len(a) - fade + k], b[k], k - 1, fade)
           /\ SubSeq(out, Len(a) + 1, Len(out)) = SubSeq(b, fade + 1, Len(b))
           /\ (stitching.out.bytes = stitching.chunks[1] \o stitching.chunks[2])
              <=> fade = 0

\* A left buffer of one sample and a right buffer of three, window three:
\* the result has three samples, not four, and the first right sample is
\* not in it.
C26_Witness ==
    /\ CrossfadeReturned
    /\ ShorterThanFade
    /\ stitching.fade_samples = 3
    /\ frombytes(stitching.chunks[1]) = <<1>>
    /\ frombytes(stitching.chunks[2]) = <<32767, 0 - 32768, 0 - 32768>>
    /\ frombytes(stitching.out.bytes) = <<1, 0 - 32768, 0 - 32768>>

\* n is an integer nearest to num / den (either one when two are equally
\* near).
NearestTo(n, num, den) ==
    LET twice == 2 * (n * den - num)
    IN  twice <= den /\ 0 - twice <= den

\* C27: for positive sample_rate, crossfade_ms, silence_ms and channels the
\* fade window of stitch is sample_rate * crossfade_ms / 1000 rounded to the
\* nearest integer, times channels, and the silence is
\* sample_rate * silence_ms / 1000 rounded to the nearest integer, times
\* channels * sample_width zero bytes.
C27_FramesAreRoundedToNearest ==
    (/\ StitchReturned
     /\ Len(stitching.chunks) > 1
     /\ stitching.args.crossfade_ms > 0
     /\ stitching.args.silence_ms > 0)
    => LET a == stitching.args
       IN  /\ a.sample_width = 2
              => \E frames \in 0..(a.sample_rate * a.crossfade_ms) :
                   /\ NearestTo(frames, a.sample_rate * a.crossfade_ms, 1000)
                   /\ stitching.fade_samples = frames * a.channels
           /\ \E frames \in 0..(a.sample_rate * a.silence_ms) :
                /\ NearestTo(frames, a.sample_rate * a.silence_ms, 1000)
                /\ SilenceOfCall = Zeros(frames * a.channels * a.sample_width)


\* ------------------------------------------------------ more cache claims 2
\* The plain calls that met a stale record, and the tasks ever created.
StaleCalls == {p \in CallIds : pc[p] # "idle" /\ req[p].path = "stale"}
CreatedTasks == {b \in BgIds : pc[b] # "unborn"}

\* C28: background refreshes are not deduplicated: every get that meets a
\* stale record creates its own task, whatever refreshes are pending, so k
\* such calls have created k tasks; every task that ended made its own
\* discovery call, and its own write when names were discovered; and the
\* discoveries and writes happen one at a time under the gate.
C28_EachStaleGetHasItsOwnRefresh ==
    /\ Cardinality(CreatedTasks) = Cardinality(StaleCalls)
    /\ \A b \in BgIds :
         pc[b] = "bg_done"
         => /\ ops[b].disc = 1
            /\ ops[b].write = (IF Discovered(tts_model) # <<>> THEN 1 ELSE 0)
    /\ Cardinality(InDiscovery \cup InWrite) <= 1

\* Two gets met the stale record while no refresh had persisted anything,
\* and both tasks ended after a discovery call and a write each.
C28_Witness ==
    /\ Cardinality(StaleCalls) = 2
    /\ \A b \in BgIds : pc[b] = "bg_done" /\ ops[b].disc = 1 /\ ops[b].write = 1
    /\ \E b \in BgIds : overlap[b]


\* The step in which the refresh of p ends, by a return or by an exception.
InRefresh(p) == pc[p] \in {"discover", "write", "commit"}
RefreshEndStep(p) == InRefresh(p) /\ pc'[p] \in {"returned", "raised", "bg_done"}

\* C29: every way a refresh ends (return, empty discovery, exception of
\* discovery, write or commit) leaves the gate free, and the gate is taken
\* only while a refresh is running; under fair scheduling every request
\* waiting for the gate acquires it, and a refresh that holds it ends.
C29_GateIsReleasedAndWaitersGetIn ==
    /\ [][\A p \in Procs : RefreshEndStep(p) => ~locked']_vars
    /\ [](locked <=> \E p \in Procs : InRefresh(p))
    /\ \A p \in Procs : (pc[p] = "wait") ~> (pc[p] = "discover")
    /\ \A p \in Procs : InRefresh(p) ~> ~InRefresh(p)

\* A refresh took the gate on a readable record and failed in its write,
\* leaving the file unreadable; a request that had waited for the gate took
\* it after that failure, ran, and persisted a valid record.
C29_Witness ==
    \E p, q \in Procs :
      /\ pc[p] = "raised" /\ ops[p].write = 1 /\ pre[p] # GarbageFile
      /\ overlap[q] /\ pre[q] = GarbageFile
      /\ pc[q] = "returned" /\ ops[q].commit = 1
      /\ ValidRecord(file) /\ file.speakers.v = Sorted(speakers[q])


\* ---------------------------------------------------- transcription claims
\* C30: when a transcription request has ended, on whatever path, none of
\* the temporary files created for it (the copy of the upload, the converted
\* WAV) exists any more.
C30_NoTemporaryFileOutlivesTheRequest ==
    transcription.phase = "responded" => transcription.files = {}

=============================================================================
